---- MODULE Spec2Model ----
(***************************************************************************)
(* A model of the reference normalization tool langsci.bib.bibtools:       *)
(* Record (parse_bibtex, parse_natural, conform and its checks, bibtex)    *)
(* and normalize(), with the regular expressions of langsci.bib.bibpatterns*)
(* evaluated by the matcher defined first.                                 *)
(*                                                                         *)
(* Python values are represented as follows.                               *)
(*   str            a TLA+ string                                          *)
(*   str | None     a sequence of length at most one: <<>> is None         *)
(*   dict           a sequence of <<key, value>> pairs in insertion order  *)
(*   list of str    a sequence of strings                                  *)
(* The en dash U+2013 and the em dash U+2014 are written EnDash and EmDash.*)
(***************************************************************************)
EXTENDS Integers, Sequences, FiniteSets, TLC

(***************************************************************************)
(* Sequencing                                                              *)
(***************************************************************************)
\* Statements run one after the other: After(v, e) is e, computed once the
\* value v of the statements before it has been computed.  Its value is e.
After(v, e) == IF v = v THEN e ELSE e

(***************************************************************************)
(* Characters and strings                                                  *)
(***************************************************************************)
Char(s, i) == SubSeq(s, i, i)
CharsOf(s) == {Char(s, i) : i \in 1..Len(s)}
LowerAlphabet == "abcdefghijklmnopqrstuvwxyz"
UpperAlphabet == "ABCDEFGHIJKLMNOPQRSTUVWXYZ"
Lower == CharsOf(LowerAlphabet)
Upper == CharsOf(UpperAlphabet)
Digit == CharsOf("0123456789")
Letter == Lower \cup Upper
WordChar == Letter \cup Digit \cup {"_"}
Space == {" ", "\t", "\n", "\r", "\f"}
EnDash == "~"
EmDash == "^"

Min2(a, b) == IF a <= b THEN a ELSE b
Max2(a, b) == IF a >= b THEN a ELSE b
MinOf(S) == CHOOSE m \in S : \A k \in S : m <= k
MaxOf(S) == 0 - MinOf({0 - k : k \in S})

IndexIn(alphabet, c) == CHOOSE i \in 1..Len(alphabet) : Char(alphabet, i) = c
LowerChar(c) == IF c \in Upper THEN Char(LowerAlphabet, IndexIn(UpperAlphabet, c)) ELSE c
UpperChar(c) == IF c \in Lower THEN Char(UpperAlphabet, IndexIn(LowerAlphabet, c)) ELSE c

\* str.lower() and str.upper(), by halving the string
RECURSIVE MapChars(_, _, _, _)
MapChars(s, lo, hi, up) ==
  IF lo > hi THEN ""
  ELSE IF lo = hi THEN (IF up THEN UpperChar(Char(s, lo)) ELSE LowerChar(Char(s, lo)))
  ELSE LET mid == (lo + hi) \div 2
       IN MapChars(s, lo, mid, up) \o MapChars(s, mid + 1, hi, up)
ToLower(s) == MapChars(s, 1, Len(s), FALSE)
ToUpper(s) == MapChars(s, 1, Len(s), TRUE)

\* both cases of every letter of a set of characters (re.IGNORECASE)
FoldCase(cs) == cs \cup {LowerChar(c) : c \in cs} \cup {UpperChar(c) : c \in cs}

\* Python's truth value of a string or None, and the value of x or y
Truthy(o) == o # <<>> /\ o[1] # ""
Falsy(o) == ~Truthy(o)
Some(v) == <<v>>
None == <<>>
OrElse(o, p) == IF Truthy(o) THEN o ELSE p

\* "".join(xs), by halving the list
RECURSIVE ConcatRange(_, _, _)
ConcatRange(xs, lo, hi) ==
  IF lo > hi THEN ""
  ELSE IF lo = hi THEN xs[lo]
  ELSE LET mid == (lo + hi) \div 2
       IN ConcatRange(xs, lo, mid) \o ConcatRange(xs, mid + 1, hi)
ConcatAll(xs) == ConcatRange(xs, 1, Len(xs))
\* sep.join(xs)
Join(sep, xs) ==
  ConcatAll([i \in 1..(IF Len(xs) = 0 THEN 0 ELSE 2 * Len(xs) - 1) |->
               IF i % 2 = 1 THEN xs[(i + 1) \div 2] ELSE sep])

StartsWith(s, pre) == Len(pre) <= Len(s) /\ SubSeq(s, 1, Len(pre)) = pre
EndsWith(s, suf) == Len(suf) <= Len(s) /\ SubSeq(s, Len(s) - Len(suf) + 1, Len(s)) = suf
\* the positions where sub occurs in s
Occurrences(s, sub) == {i \in 1..(Len(s) - Len(sub) + 1) : SubSeq(s, i, i + Len(sub) - 1) = sub}
\* sub in s
Contains(s, sub) == Occurrences(s, sub) # {}
\* the occurrences str.count, str.replace and str.split use: from the left, not overlapping
RECURSIVE Cuts(_, _, _)
Cuts(s, sub, from) ==
  LET occ == {i \in Occurrences(s, sub) : i >= from}
  IN IF occ = {} \/ sub = "" THEN <<>>
     ELSE LET i == MinOf(occ) IN <<i>> \o Cuts(s, sub, i + Len(sub))
Count(s, sub) == Len(Cuts(s, sub, 1))
\* s.split(sep)
Split(s, sep) ==
  LET cs == Cuts(s, sep, 1)
  IN [k \in 1..(Len(cs) + 1) |->
        SubSeq(s, IF k = 1 THEN 1 ELSE cs[k - 1] + Len(sep),
                  IF k = Len(cs) + 1 THEN Len(s) ELSE cs[k] - 1)]
\* s.replace(old, new)
Replace(s, old, new) == Join(new, Split(s, old))
\* s.strip(chars), s.lstrip(chars), s.rstrip(chars); StripWs(s) is s.strip()
LStrip(s, cs) ==
  LET keep == {i \in 1..Len(s) : Char(s, i) \notin cs}
  IN IF keep = {} THEN "" ELSE SubSeq(s, MinOf(keep), Len(s))
RStrip(s, cs) ==
  LET keep == {i \in 1..Len(s) : Char(s, i) \notin cs}
  IN IF keep = {} THEN "" ELSE SubSeq(s, 1, MaxOf(keep))
Strip(s, cs) == LStrip(RStrip(s, cs), cs)
StripWs(s) == Strip(s, Space)
\* s.split(): the maximal runs of characters that are not whitespace
SplitWs(s) ==
  LET starts == {i \in 1..Len(s) : Char(s, i) \notin Space /\ (i = 1 \/ Char(s, i - 1) \in Space)}
      endOf(i) == MinOf({j \in i..Len(s) : j = Len(s) \/ Char(s, j + 1) \in Space})
      nth(k) == CHOOSE i \in starts : Cardinality({j \in starts : j < i}) = k - 1
  IN [k \in 1..Cardinality(starts) |-> SubSeq(s, nth(k), endOf(nth(k)))]
\* s.splitlines(), for the line boundaries \n, \r\n and \r
SplitLines(s) ==
  LET ends == {i \in 1..Len(s) : Char(s, i) = "\n" \/ (Char(s, i) = "\r" /\ (i = Len(s) \/ Char(s, i + 1) # "\n"))}
      nth(k) == CHOOSE i \in ends : Cardinality({j \in ends : j < i}) = k - 1
      n == Cardinality(ends)
      startOf(k) == IF k = 1 THEN 1 ELSE nth(k - 1) + 1
      stopOf(k) == IF k > n THEN Len(s)
                   ELSE IF nth(k) > 1 /\ Char(s, nth(k)) = "\n" /\ Char(s, nth(k) - 1) = "\r" THEN nth(k) - 2
                   ELSE nth(k) - 1
  IN [k \in 1..(IF n = 0 THEN (IF s = "" THEN 0 ELSE 1) ELSE IF nth(n) = Len(s) THEN n ELSE n + 1) |->
        SubSeq(s, startOf(k), stopOf(k))]
\* s.isdigit() and int(s): int accepts surrounding whitespace and a sign
IsDigits(s) == s # "" /\ \A i \in 1..Len(s) : Char(s, i) \in Digit
DigitValue(c) == IndexIn("0123456789", c) - 1
RECURSIVE NatOf(_, _, _)
NatOf(s, lo, hi) ==
  IF lo > hi THEN 0
  ELSE IF lo = hi THEN DigitValue(Char(s, lo))
  ELSE NatOf(s, lo, hi - 1) * 10 + DigitValue(Char(s, hi))
IntBody(s) == IF StripWs(s) # "" /\ Char(StripWs(s), 1) \in {"+", "-"}
              THEN SubSeq(StripWs(s), 2, Len(StripWs(s))) ELSE StripWs(s)
\* (digits may be grouped by single underscores)
IntDigits(s) == Replace(IntBody(s), "_", "")
IsInt(s) ==
  /\ IsDigits(IntDigits(s))
  /\ ~StartsWith(IntBody(s), "_") /\ ~EndsWith(IntBody(s), "_") /\ ~Contains(IntBody(s), "__")
IntOf(s) == IF StartsWith(StripWs(s), "-") THEN 0 - NatOf(IntDigits(s), 1, Len(IntDigits(s)))
            ELSE NatOf(IntDigits(s), 1, Len(IntDigits(s)))
\* str(n) for a natural number n
RECURSIVE NatToStr(_)
NatToStr(n) == IF n < 10 THEN Char("0123456789", n + 1) ELSE NatToStr(n \div 10) \o Char("0123456789", (n % 10) + 1)

\* the order of characters by code point, and of strings as Python compares them
Ascii == "\t\n\f\r !\"#$%&'()*+,-./0123456789:;<=>?@ABCDEFGHIJKLMNOPQRSTUVWXYZ[\\]^_abcdefghijklmnopqrstuvwxyz{|}~"
Code(c) == IndexIn(Ascii, c)
StrLess(a, b) ==
  LET diff == {i \in 1..Min2(Len(a), Len(b)) : Char(a, i) # Char(b, i)}
  IN IF diff = {} THEN Len(a) < Len(b)
     ELSE Code(Char(a, MinOf(diff))) < Code(Char(b, MinOf(diff)))
\* sorted(xs, key=..., reverse=...): stable; Key(x) is the string sorted by
SortedBy(xs, Key(_), reverse) ==
  LET before(i, j) == \/ (IF reverse THEN StrLess(Key(xs[j]), Key(xs[i])) ELSE StrLess(Key(xs[i]), Key(xs[j])))
                      \/ (Key(xs[i]) = Key(xs[j]) /\ i < j)
      rank(i) == Cardinality({j \in 1..Len(xs) : before(j, i)}) + 1
  IN [k \in 1..Len(xs) |-> xs[CHOOSE i \in 1..Len(xs) : rank(i) = k]]

\* dict, as a sequence of <<key, value>> pairs in insertion order
EmptyDict == <<>>
DictKeys(d) == [i \in 1..Len(d) |-> d[i][1]]
DictHas(d, k) == \E i \in 1..Len(d) : d[i][1] = k
DictIndex(d, k) == CHOOSE i \in 1..Len(d) : d[i][1] = k
\* d[k], and d.get(k) which is None when k is absent
DictAt(d, k) == d[DictIndex(d, k)][2]
DictGet(d, k) == IF DictHas(d, k) THEN Some(DictAt(d, k)) ELSE None
\* d[k] = v
DictSet(d, k, v) == IF DictHas(d, k) THEN [d EXCEPT ![DictIndex(d, k)] = <<k, v>>] ELSE Append(d, <<k, v>>)
\* del d[k], d.pop(k, None)
DictDel(d, k) ==
  IF ~DictHas(d, k) THEN d
  ELSE [i \in 1..(Len(d) - 1) |-> IF i < DictIndex(d, k) THEN d[i] ELSE d[i + 1]]

(***************************************************************************)
(* Regular expressions. A pattern is a tree of nodes; the constructors     *)
(* below follow the notation of Python's re module.                        *)
(***************************************************************************)
Cls(cs) == [t |-> "cls", cs |-> cs, neg |-> FALSE]          \* [abc]
NCls(cs) == [t |-> "cls", cs |-> cs, neg |-> TRUE]          \* [^abc]
Dot == NCls({"\n"})                                          \* .
Lit(str) == [t |-> "lit", s |-> str, ci |-> FALSE]           \* abc
LitI(str) == [t |-> "lit", s |-> ToLower(str), ci |-> TRUE]  \* (?i)abc
\* ab; a sequence inside a sequence is written out in it
RECURSIVE Flat(_, _, _)
Flat(xs, lo, hi) ==
  IF lo > hi THEN <<>>
  ELSE IF lo = hi THEN (IF xs[lo].t = "seq" THEN xs[lo].xs ELSE <<xs[lo]>>)
  ELSE LET mid == (lo + hi) \div 2
       IN Flat(xs, lo, mid) \o Flat(xs, mid + 1, hi)
Cat(xs) == [t |-> "seq", xs |-> Flat(xs, 1, Len(xs))]
Alt(xs) == [t |-> "alt", xs |-> xs]                          \* a|b
Grp(k, x) == [t |-> "grp", k |-> k, x |-> x]                 \* (a), (?P<k>a)
Rep(x, lo, hi) == [t |-> "rep", x |-> x, lo |-> lo, hi |-> hi, inf |-> FALSE, lazy |-> FALSE]  \* a{lo,hi}
Star(x) == [t |-> "rep", x |-> x, lo |-> 0, hi |-> 0, inf |-> TRUE, lazy |-> FALSE]   \* a*
Plus(x) == [t |-> "rep", x |-> x, lo |-> 1, hi |-> 0, inf |-> TRUE, lazy |-> FALSE]   \* a+
Opt(x) == [t |-> "rep", x |-> x, lo |-> 0, hi |-> 1, inf |-> FALSE, lazy |-> FALSE]   \* a?
StarL(x) == [t |-> "rep", x |-> x, lo |-> 0, hi |-> 0, inf |-> TRUE, lazy |-> TRUE]   \* a*?
PlusL(x) == [t |-> "rep", x |-> x, lo |-> 1, hi |-> 0, inf |-> TRUE, lazy |-> TRUE]   \* a+?
Bol == [t |-> "bol"]                                         \* ^
Eol == [t |-> "eol"]                                         \* $
WordB == [t |-> "wb"]                                        \* \b
Ahead(x) == [t |-> "look", x |-> x, neg |-> FALSE, behind |-> FALSE]      \* (?=a)
NotAhead(x) == [t |-> "look", x |-> x, neg |-> TRUE, behind |-> FALSE]    \* (?!a)
Behind(x) == [t |-> "look", x |-> x, neg |-> FALSE, behind |-> TRUE]      \* (?<=a)
NotBehind(x) == [t |-> "look", x |-> x, neg |-> TRUE, behind |-> TRUE]    \* (?<!a)

Positions(s) == 1..(Len(s) + 1)
ClsOk(x, s, p) == p >= 1 /\ p <= Len(s) /\ ((Char(s, p) \in x.cs) # x.neg)
LitOk(x, s, p) ==
  /\ p + Len(x.s) - 1 <= Len(s)
  /\ LET sub == SubSeq(s, p, p + Len(x.s) - 1)
     IN IF x.ci THEN ToLower(sub) = x.s ELSE sub = x.s
IsWordAt(s, p) == p >= 1 /\ p <= Len(s) /\ Char(s, p) \in WordChar
\* the end of the run of characters of class x that starts at p
RunEnd(x, s, p) == MinOf({k \in p..(Len(s) + 1) : ~ClsOk(x, s, k)})
\* the start of the run of characters of class x that ends before q
RunStart(x, s, q) == MaxOf({k \in 1..q : ~ClsOk(x, s, k - 1)})
OneLess(x) == [x EXCEPT !.lo = Max2(x.lo - 1, 0), !.hi = x.hi - 1]

\* Reach(fwd, x, s, P). Forward: the positions at which a match of x that
\* starts at a position of P can end. Backward: the positions at which a
\* match of x that ends at a position of P can start. A node "iter" stands
\* for the further iterations of the repetition x.x, of which the positions
\* x.seen have been reached before.
Half(x, first) ==
  [t |-> "seq", xs |-> IF first THEN SubSeq(x.xs, 1, Len(x.xs) \div 2)
                       ELSE SubSeq(x.xs, Len(x.xs) \div 2 + 1, Len(x.xs))]
RECURSIVE Reach(_, _, _, _)
Reach(fwd, x, s, P) ==
  IF P = {} THEN {}
  ELSE CASE x.t = "cls" ->
              IF fwd THEN {p + 1 : p \in {q \in P : ClsOk(x, s, q)}}
              ELSE {q - 1 : q \in {r \in P : ClsOk(x, s, r - 1)}}
         [] x.t = "lit" ->
              IF fwd THEN {p + Len(x.s) : p \in {q \in P : LitOk(x, s, q)}}
              ELSE {q - Len(x.s) : q \in {r \in P : r - Len(x.s) >= 1 /\ LitOk(x, s, r - Len(x.s))}}
         [] x.t = "seq" ->
              IF Len(x.xs) = 0 THEN P
              ELSE IF Len(x.xs) = 1 THEN Reach(fwd, x.xs[1], s, P)
              ELSE LET half == Reach(fwd, Half(x, fwd), s, P)
                   IN IF half = {} THEN {} ELSE Reach(fwd, Half(x, ~fwd), s, half)
         [] x.t = "alt" -> UNION {Reach(fwd, x.xs[i], s, P) : i \in 1..Len(x.xs)}
         [] x.t = "grp" -> Reach(fwd, x.x, s, P)
         [] x.t = "rep" ->
              IF x.x.t = "cls"
              THEN (IF fwd
                    THEN UNION {(p + x.lo)..(IF x.inf THEN RunEnd(x.x, s, p)
                                             ELSE Min2(RunEnd(x.x, s, p), p + x.hi)) : p \in P}
                    ELSE UNION {(IF x.inf THEN RunStart(x.x, s, q)
                                 ELSE Max2(RunStart(x.x, s, q), q - x.hi))..(q - x.lo) : q \in P})
              ELSE IF x.lo > 0
              THEN LET one == Reach(fwd, x.x, s, P)
                   IN IF one = {} THEN {} ELSE Reach(fwd, OneLess(x), s, one)
              ELSE Reach(fwd, [t |-> "iter", x |-> x, seen |-> P], s, P)
         [] x.t = "iter" ->
              P \cup (IF ~x.x.inf /\ x.x.hi <= 0 THEN {}
                      ELSE LET more == Reach(fwd, x.x.x, s, P) \ x.seen
                           IN IF more = {} THEN {}
                              ELSE Reach(fwd, [t |-> "iter", x |-> OneLess(x.x), seen |-> x.seen \cup more], s, more))
         [] x.t = "bol" -> P \cap {1}
         [] x.t = "eol" -> {p \in P : p = Len(s) + 1 \/ (p = Len(s) /\ Char(s, p) = "\n")}
         [] x.t = "wb" -> {p \in P : IsWordAt(s, p - 1) # IsWordAt(s, p)}
         [] x.t = "look" -> {p \in P : (Reach(~x.behind, x.x, s, {p}) # {}) # x.neg}
Fwd(x, s, P) == Reach(TRUE, x, s, P)
Bwd(x, s, Q) == Reach(FALSE, x, s, Q)

\* Pick(x, s, p, Q): the match of x from p that Python's backtracking finds
\* first among those ending at a position of Q (one exists): its end e and
\* the spans c of the groups it captures. NoPick stands for no match; it is
\* only tested to fix the order of evaluation.
NoCaps == <<>>
NoPick == [e |-> 0, c |-> NoCaps]
Then(l, r) == IF l.e = 0 THEN NoPick ELSE [e |-> r.e, c |-> r.c @@ l.c]
Ending(x, ends) == [e |-> IF x.lazy THEN MinOf(ends) ELSE MaxOf(ends), c |-> NoCaps]
Captured(k, p, r) == [e |-> r.e, c |-> (k :> <<p, r.e>>) @@ r.c]
FirstGood(x, s, p, Q) ==
  CHOOSE i \in 1..Len(x.xs) : /\ Fwd(x.xs[i], s, {p}) \cap Q # {}
                              /\ \A j \in 1..(i - 1) : Fwd(x.xs[j], s, {p}) \cap Q = {}
RECURSIVE Pick(_, _, _, _)
RECURSIVE PickSeq(_, _, _, _, _)
RECURSIVE PickSeqRight(_, _, _, _)
RECURSIVE PickRep(_, _, _, _, _)
RECURSIVE PickMore(_, _, _, _)
Pick(x, s, p, Q) ==
  CASE x.t = "cls" -> [e |-> p + 1, c |-> NoCaps]
    [] x.t = "lit" -> [e |-> p + Len(x.s), c |-> NoCaps]
    [] x.t = "seq" ->
         IF Len(x.xs) = 0 THEN [e |-> p, c |-> NoCaps]
         ELSE IF Len(x.xs) = 1 THEN Pick(x.xs[1], s, p, Q)
         ELSE PickSeq(x, s, p, Q, Bwd(Half(x, FALSE), s, Q))
    [] x.t = "alt" -> Pick(x.xs[FirstGood(x, s, p, Q)], s, p, Q)
    [] x.t = "grp" -> Captured(x.k, p, Pick(x.x, s, p, Q))
    [] x.t = "rep" ->
         IF x.x.t = "cls" THEN Ending(x, Fwd(x, s, {p}) \cap Q)
         ELSE PickRep(x, s, p, Q, Bwd(OneLess(x), s, Q) \ {p})
    [] OTHER -> [e |-> p, c |-> NoCaps]
PickSeq(x, s, p, Q, QL) ==
  IF QL = {} THEN NoPick ELSE PickSeqRight(x, s, Q, Pick(Half(x, TRUE), s, p, QL))
PickSeqRight(x, s, Q, l) ==
  IF l.e = 0 THEN NoPick ELSE Then(l, Pick(Half(x, FALSE), s, l.e, Q))
PickRep(x, s, p, Q, after) ==
  IF IF x.lazy THEN x.lo = 0 /\ p \in Q
     ELSE ~((x.inf \/ x.hi > 0) /\ Fwd(x.x, s, {p}) \cap after # {})
  THEN [e |-> p, c |-> NoCaps]
  ELSE IF after = {} THEN NoPick
  ELSE PickMore(x, s, Q, Pick(x.x, s, p, after))
PickMore(x, s, Q, one) ==
  IF one.e = 0 THEN NoPick ELSE Then(one, Pick(OneLess(x), s, one.e, Q))

\* A match object: ok, the subject s, the span from..to-1 and the group spans
NoMatch == [ok |-> FALSE]
Matched(s, p, r) == [ok |-> TRUE, s |-> s, from |-> p, to |-> r.e, c |-> r.c]
MatchIn(x, s, p, ends) == IF ends = {} THEN NoMatch ELSE Matched(s, p, Pick(x, s, p, ends))
MatchAt(x, s, p, Q) == MatchIn(x, s, p, Fwd(x, s, {p}) \cap Q)
\* re.match, re.fullmatch, re.search (from position start on)
ReMatch(x, s) == MatchAt(x, s, 1, Positions(s))
ReFullMatch(x, s) == MatchAt(x, s, 1, {Len(s) + 1})
SearchIn(x, s, starts) ==
  IF starts = {} THEN NoMatch ELSE MatchAt(x, s, MinOf(starts), Positions(s))
ReSearchFrom(x, s, start) == SearchIn(x, s, Bwd(x, s, Positions(s)) \cap (start..(Len(s) + 1)))
ReSearch(x, s) == ReSearchFrom(x, s, 1)
\* m.group(k): <<>> is None; m.group() is Whole(m)
Group(m, k) == IF k \in DOMAIN m.c THEN <<SubSeq(m.s, m.c[k][1], m.c[k][2] - 1)>> ELSE <<>>
Whole(m) == SubSeq(m.s, m.from, m.to - 1)

\* the successive matches that re.sub, re.split and finditer work on
RECURSIVE FindAllIn(_, _, _, _)
RECURSIVE FindFrom(_, _, _, _)
RECURSIVE FindAfter(_, _, _, _)
FindAllIn(x, s, starts, from) == FindFrom(x, s, starts, {p \in starts : p >= from})
FindFrom(x, s, starts, rest) ==
  IF rest = {} THEN <<>> ELSE FindAfter(x, s, starts, MatchAt(x, s, MinOf(rest), Positions(s)))
FindAfter(x, s, starts, m) ==
  IF ~m.ok THEN <<>>
  ELSE <<m>> \o FindAllIn(x, s, starts, IF m.to > m.from THEN m.to ELSE m.to + 1)
ReFindAll(x, s) == FindAllIn(x, s, Bwd(x, s, Positions(s)), 1)
\* the text between the matches ms: before the first, between two, after the last
Gap(s, ms, k) ==
  SubSeq(s, IF k = 0 THEN 1 ELSE ms[k].to, IF k = Len(ms) THEN Len(s) ELSE ms[k + 1].from - 1)
\* re.sub(x, repl, s), where Repl(m) is the replacement of the match m
SubIn(Repl(_), s, ms) ==
  IF ms = <<>> THEN s
  ELSE ConcatAll([i \in 1..(2 * Len(ms) + 1) |->
                    IF i % 2 = 1 THEN Gap(s, ms, (i - 1) \div 2) ELSE Repl(ms[i \div 2])])
ReSub(x, Repl(_), s) == SubIn(Repl, s, ReFindAll(x, s))
\* re.split(x, s), for a pattern without groups
SplitIn(s, ms) == [k \in 1..(Len(ms) + 1) |-> Gap(s, ms, k - 1)]
ReSplit(x, s) == SplitIn(s, ReFindAll(x, s))
\* m.group(k) of a group that took part in the match
G(m, k) == Group(m, k)[1]

(***************************************************************************)
(* langsci.bib.bibpatterns. Each pattern is given with its source text.    *)
(* \d is [0-9], \s is [ \t\n\r\f], \w is [A-Za-z0-9_]: inputs are ASCII.   *)
(***************************************************************************)
D == Cls(Digit)
S == Cls(Space)
NotS == NCls(Space)
W == Cls(WordChar)
Sp == Lit(" ")
CamelChars == Letter \cup Digit \cup {"-", "'"}
Dashes == {"-", EnDash, EmDash}

\* langsci.bib.bibnouns, the static lists of proper nouns: a few of each
LANGUAGENAMES == <<"English">>
COUNTRIES == <<"France">>
OCEANNAMES == <<"Pacific">>
CONTINENTNAMES == <<"Africa">>
CITIES == <<"Berlin">>
OCCURREDREPLACEMENTS == <<"Bantu">>
ProperNouns == LANGUAGENAMES \o COUNTRIES \o OCEANNAMES \o CONTINENTNAMES \o CITIES \o OCCURREDREPLACEMENTS
\* \b(%s)\b of the nouns joined by |
PRESERVATIONPATTERN == Cat(<<WordB, Grp("1", Alt([i \in 1..Len(ProperNouns) |-> Lit(ProperNouns[i])])), WordB>>)
\* ([A-Z][A-Za-z0-9\-']*[A-Z][A-Za-z0-9\-']+)
CAMELCASE_RE == Grp("1", Cat(<<Cls(Upper), Star(Cls(CamelChars)), Cls(Upper), Plus(Cls(CamelChars))>>))
\* \b(Proceedings|Workshop|Conference|Symposium)\b
PROCEEDINGS_RE ==
  Cat(<<WordB, Grp("1", Alt(<<Lit("Proceedings"), Lit("Workshop"), Lit("Conference"), Lit("Symposium")>>)), WordB>>)
\* \b(proceedings|workshop|conference|symposium)\b
PROCEEDINGS_LC_RE ==
  Cat(<<WordB, Grp("1", Alt(<<Lit("proceedings"), Lit("workshop"), Lit("conference"), Lit("symposium")>>)), WordB>>)
\* (roceedings|orkshop|onference|ymposium), re.IGNORECASE
PROCEEDINGS_FUZZY_RE ==
  Grp("1", Alt(<<LitI("roceedings"), LitI("orkshop"), LitI("onference"), LitI("ymposium")>>))
\* (, )?([Vv]olume|[Vv]ol.?|Band|[Tt]ome) *([0-9IVXivx]+)
TITLEVOLUME_RE ==
  Cat(<<Opt(Grp("1", Lit(", "))),
        Grp("2", Alt(<<Cat(<<Cls({"V", "v"}), Lit("olume")>>),
                       Cat(<<Cls({"V", "v"}), Lit("ol"), Opt(Dot)>>),
                       Lit("Band"),
                       Cat(<<Cls({"T", "t"}), Lit("ome")>>)>>)),
        Star(Sp),
        Grp("3", Plus(Cls(Digit \cup CharsOf("IVXivx"))))>>)
\* (thesis(es)?|dissertation|proquest), re.IGNORECASE
THESIS_RE ==
  Grp("1", Alt(<<Cat(<<LitI("thesis"), Opt(Grp("2", LitI("es")))>>), LitI("dissertation"), LitI("proquest")>>))

yyyy == Cat(<<Cls({"1", "2"}), D, D, D>>)      \* [12][0-9][0-9][0-9]
mm == Cat(<<Opt(Cls({"1", "0"})), D>>)         \* [10]?[0-9]
dd == Cat(<<Opt(Cls(CharsOf("0123"))), D>>)    \* [0123]?[0-9]
iso_date == Cat(<<yyyy, Lit("-"), mm, Lit("-"), dd>>)
euro_date == Cat(<<dd, Lit("."), mm, Lit("."), yyyy>>)
\* https?://\S+
url_pattern == Cat(<<Lit("http"), Opt(Lit("s")), Lit("://"), Plus(NotS)>>)
\* {url_pattern} .*?({iso_date}|{euro_date})
URL_URLDATE_RE == Cat(<<url_pattern, Sp, StarL(Dot), Grp("1", Alt(<<iso_date, euro_date>>))>>)
\* \b{iso_date}\b
ISO_DATE_RE == Cat(<<WordB, iso_date, WordB>>)
\* (https?://[^ \(\)]+), re.IGNORECASE
URL_RE == Grp("1", Cat(<<LitI("http"), Opt(LitI("s")), Lit("://"), Plus(NCls({" ", "(", ")"}))>>))
\* ^https?://([^/]+), re.IGNORECASE
DOMAIN_RE == Cat(<<Bol, LitI("http"), Opt(LitI("s")), Lit("://"), Grp("1", Plus(NCls({"/"})))>>)
\* (?<!\\)&
AMP_RE == Cat(<<NotBehind(Lit("\\")), Lit("&")>>)
\* (?i)^(?:article|art\.?|id\.?|number|no\.?){1,3} *([A-Za-z0-9]+)
ARTICLE_ID_RE ==
  Cat(<<Bol,
        Rep(Alt(<<LitI("article"), Cat(<<LitI("art"), Opt(Lit("."))>>), Cat(<<LitI("id"), Opt(Lit("."))>>),
                  LitI("number"), Cat(<<LitI("no"), Opt(Lit("."))>>)>>), 1, 3),
        Star(Sp),
        Grp("1", Plus(Cls(Letter \cup Digit)))>>)
\* ^\s*([^\{\s]+)\s*\{\s*([^,\s]+)\s*,\s*((?:.|\n)*)\}
TYPKEYFIELDS ==
  Cat(<<Bol, Star(S), Grp("1", Plus(NCls({"{"} \cup Space))), Star(S), Lit("{"), Star(S),
        Grp("2", Plus(NCls({","} \cup Space))), Star(S), Lit(","), Star(S),
        Grp("3", Star(NCls({}))), Lit("}")>>)
\* ([:\?!]) +([a-zA-Z])
MAINTITLE_RE == Cat(<<Grp("1", Cls({":", "?", "!"})), Plus(Sp), Grp("2", Cls(Letter))>>)
\* (10\.\d{4,9}/[-._;()/:A-Z0-9]+), re.IGNORECASE wherever it is used
DoiChars == FoldCase(CharsOf("-._;()/:") \cup Upper \cup Digit)
doi_core == Cat(<<Lit("10."), Rep(D, 4, 9), Lit("/"), Plus(Cls(DoiChars))>>)
doi_pattern == Grp("1", doi_core)
DOI_RE == doi_pattern
\* the whitelist of trusted DOI patterns by domain
DOI_WHITELIST_RE ==
  <<  \* /{doi_pattern}(?:/html|/pdf)?
     <<"www.degruyter.com", Cat(<<Lit("/"), doi_pattern, Opt(Alt(<<LitI("/html"), LitI("/pdf")>>))>>)>>,
      \* /doi/{doi_pattern}
     <<"academic.oup.com", Cat(<<LitI("/doi/"), doi_pattern>>)>>,
      \* /doi/(?:full|abs|pdf)?/{doi_pattern}
     <<"www.tandfonline.com", Cat(<<LitI("/doi/"), Opt(Alt(<<LitI("full"), LitI("abs"), LitI("pdf")>>)), Lit("/"), doi_pattern>>)>>,
      \* doi\.org/{doi_pattern}
     <<"doi.org", Cat(<<LitI("doi.org/"), doi_pattern>>)>>,
     <<"dx.doi.org", Cat(<<LitI("dx.doi.org/"), doi_pattern>>)>>,
     <<"doi.acm.org", Cat(<<LitI("doi.acm.org/"), doi_pattern>>)>>,
     <<"journals.sagepub.com", Cat(<<LitI("/doi/"), doi_pattern>>)>>,
     <<"asa.scitation.org", Cat(<<LitI("/doi/"), doi_pattern>>)>>,
     <<"doi.wiley.com", Cat(<<LitI("doi.wiley.com/"), doi_pattern>>)>>,
     <<"link.springer.com", Cat(<<Lit("/"), doi_pattern>>)>>,
     <<"jbe-platform.com", Cat(<<Lit("/"), doi_pattern>>)>>,
     <<"pubs.asha.org", Cat(<<LitI("/doi/"), doi_pattern>>)>>,
      \* /(10\.1371/journal\.pone\.\d+)
     <<"dx.plos.org", Cat(<<Lit("/"), Grp("1", Cat(<<LitI("10.1371/journal.pone."), Plus(D)>>))>>)>>,
      \* /articles/{doi_pattern}(?:/full|/abstract)?
     <<"frontiersin.org", Cat(<<LitI("/articles/"), doi_pattern, Opt(Alt(<<LitI("/full"), LitI("/abstract")>>))>>)>> >>
\* doi/.*?({doi_pattern})(?:[/.](?:full|abstract|abs|html|pdf))?$, re.IGNORECASE
GENERIC_DOI_RE ==
  Cat(<<LitI("doi/"), StarL(Dot), Grp("1", Grp("2", doi_core)),
        Opt(Cat(<<Cls({"/", "."}), Alt(<<LitI("full"), LitI("abstract"), LitI("abs"), LitI("html"), LitI("pdf")>>)>>)),
        Eol>>)
\* (\d{4,5}\.\d{4,5}/[-._;()/:A-Z0-9]+), re.IGNORECASE
HANDLE_RE == Grp("1", Cat(<<Rep(D, 4, 5), Lit("."), Rep(D, 4, 5), Lit("/"), Plus(Cls(DoiChars))>>))

\* the tables that normalize school, address and publisher
SCHOOL_FULL ==
  << <<"{MIT}", "{Massachusetts Institute of Technology}">>,
     <<"{Ohio State University}", "{The Ohio State University}">>,
     <<"{UC Berkeley}", "{University of California, Berkeley}">>,
     <<"{UCLA}", "{University of California, Los Angeles}">>,
     <<"{University of Texas at Austin}", "{The University of Texas at Austin}">>,
     <<"{University of Texas at Arlington}", "{The University of Texas at Arlington}">>,
     <<"{University of Massachusetts Amherst}", "{University of Massachusetts, Amherst}">> >>
SCHOOL_ADDRESS ==
  << <<"{Australian National University}", "{Canberra}">>,
     <<"{Cornell University}", "{Ithaca}">>,
     <<"{Harvard University}", "{Cambridge}">>,
     <<"{Indiana University}", "{Bloomington}">>,
     <<"{Leiden University}", "{Leiden}">>,
     <<"{Massachusetts Institute of Technology}", "{Cambridge}">>,
     <<"{Rice University}", "{Houston}">>,
     <<"{Stanford University}", "{Stanford}">>,
     <<"{The Ohio State University}", "{Columbus}">>,
     <<"{The University of Texas at Arlington}", "{Arlington}">>,
     <<"{The University of Texas at Austin}", "{Austin}">>,
     <<"{Universidade Estadual de Campinas}", "{Campinas}">>,
     <<"{University of California, Berkeley}", "{Berkeley}">>,
     <<"{University of California, Los Angeles}", "{Los Angeles}">>,
     <<"{University of Cambridge}", "{Cambridge}">>,
     <<"{University of Chicago}", "{Chicago}">>,
     <<"{University of Connecticut}", "{Storrs}">>,
     <<"{University of Illinois at Urbana-Champaign}", "{Urbana-Champaign}">>,
     <<"{University of Kansas}", "{Lawrence}">>,
     <<"{University of Massachusetts, Amherst}", "{Amherst}">>,
     <<"{University of Pennsylvania}", "{Philadelphia}">>,
     <<"{University of Sydney}", "{Sydney}">>,
     <<"{Yale University}", "{New Haven}">> >>
\* (the u umlaut of the address of lincom is written u)
PUBLISHER_ADDRESS ==
  << <<<<"benjamins">>, "{Amsterdam}">>,
     <<<<"cambridge", "cup">>, "{Cambridge}">>,
     <<<<"oxford", "oup">>, "{Oxford}">>,
     <<<<"blackwell", "routledge">>, "{London}">>,
     <<<<"gruyter", "mouton">>, "{Berlin}">>,
     <<<<"wiley">>, "{Hoboken}">>,
     <<<<"brill">>, "{Leiden}">>,
     <<<<"lincom">>, "{Munchen}">>,
     <<<<"foris">>, "{Dordrecht}">>,
     <<<<"mit press">>, "{Cambridge}">> >>
\* (the four entries whose key has a character outside ASCII are left out:
\* no ASCII publisher equals them)
PUBLISHER_FULL ==
  << <<"{Ablex Publishing Co}", "{Ablex}">>,
     <<"{Ablex Publishing Corporation}", "{Ablex}">>,
     <<"{Association for Computational Linguistics (ACL)}", "{Association for Computational Linguistics}">>,
     <<"{The Association for Computational Linguistics}", "{Association for Computational Linguistics}">>,
     <<"{The Association for Computational Linguistics (ACL)}", "{Association for Computational Linguistics}">>,
     <<"{ACL}", "{Association for Computational Linguistics}">>,
     <<"{CUP}", "{Cambridge University Press}">>,
     <<"{Chicago Linguistics Society}", "{Chicago Linguistic Society}">>,
     <<"{CSLI}", "{CSLI Publications}">>,
     <<"{de Gruyter}", "{De Gruyter}">>,
     <<"{de Gruyter Mouton}", "{De Gruyter Mouton}">>,
     <<"{Elsevier Science Ltd}", "{Elsevier Science}">>,
     <<"{Elsevier Science Ltd.}", "{Elsevier Science}">>,
     <<"{Elsevier B.V}", "{Elsevier Science}">>,
     <<"{Elsevier Inc}", "{Elsevier Science}">>,
     <<"{Foris Publications}", "{Foris}">>,
     <<"{IEEE COMPUTER SOC}", "{IEEE}">>,
     <<"{John Benjamins Publishing Company}", "{John Benjamins}">>,
     <<"{Benjamins}", "{John Benjamins}">>,
     <<"{J. Benjamins}", "{John Benjamins}">>,
     <<"{John Wiley \\& Sons, Ltd}", "{John Wiley \\& Sons">>,
     <<"{John Wiley \\& Sons Ltd}", "{John Wiley \\& Sons">>,
     <<"{John Wiley and Sons, Ltd}", "{John Wiley \\& Sons">>,
     <<"{John Wiley and Sons Ltd}", "{John Wiley \\& Sons">>,
     <<"{John Wiley and Sons}", "{John Wiley \\& Sons">>,
     <<"{Editions L'Harmattan}", "{L'Harmattan}">>,
     <<"{l'Harmattan}", "{L'Harmattan}">>,
     <<"{LINCOM}", "{Lincom Europa}">>,
     <<"{The MIT Press}", "{MIT Press}">>,
     <<"{MIT press}", "{MIT Press}">>,
     <<"{Multilingual matters}", "{Multilingual Matters}">>,
     <<"{North Holland}", "{North-Holland}">>,
     <<"{North-Holland Publishing Company}", "{North-Holland}">>,
     <<"{OUP}", "{Oxford University Press}">>,
     <<"{Pergamon}", "{Pergamon Press}">>,
     <<"{Routeledge}", "{Routledge}">>,
     <<"{Sage Publications}", "{SAGE}">>,
     <<"{SAGE Publications}", "{SAGE}">>,
     <<"{Sage}", "{SAGE}">>,
     <<"{Springer Verlag}", "{Springer}">>,
     <<"{Springer Berlin Heidelberg}", "{Springer}">>,
     <<"{Springer Netherlands}", "{Springer}">>,
     <<"{University of Chicago Press}", "{The University of Chicago Press}">>,
     <<"{Walter de Gruyter GmbH \\& Co. KG}", "{Walter de Gruyter}">>,
     <<"{World Scientific Publishing}", "{World Scientific}">> >>

\* the pieces of the grammars of parse_natural
PSD == Cls({".", ",", " "})                                  \* [., ]
author == Grp("author", StarL(Dot))                          \* (?P<author>.*?)
\* \(? *(?P<year>[12][0-9]{3})(?P<extrayear>[a-z]?) *\)?
year ==
  Cat(<<Opt(Lit("(")), Star(Sp), Grp("year", Cat(<<Cls({"1", "2"}), Rep(D, 3, 3)>>)),
        Grp("extrayear", Opt(Cls(Lower))), Star(Sp), Opt(Lit(")"))>>)
PageChars == Digit \cup CharsOf("ivxlcIXVLC")
\* (?P<pages>[A-Za-z]?[0-9ivxlcIXVLC]+(?: *[---]+ *[A-Za-z]?[0-9ivxlcIVXLC]+)?), the dashes being - U+2013 U+2014
pages ==
  Grp("pages", Cat(<<Opt(Cls(Letter)), Plus(Cls(PageChars)),
                     Opt(Cat(<<Star(Sp), Plus(Cls(Dashes)), Star(Sp), Opt(Cls(Letter)), Plus(Cls(PageChars))>>))>>))
title == Grp("title", StarL(Dot))                            \* (?P<title>.*?)
title_ne == Grp("title", PlusL(Dot))                         \* (?P<title>.+?)
title_g == Grp("title", Plus(Dot))                           \* (?P<title>.+)
endmark == Grp("endmark", Cls({".", "!", "?", ","}))         \* (?P<endmark>[.!?,])
endmark1 == Grp("endmark1", Cls({".", "!", "?", ","}))       \* (?P<endmark1>[.!?,])
editor == Grp("editor", Plus(Dot))                           \* (?P<editor>.+)
\* \([Ee]ds?\.?\)
ed == Cat(<<Lit("("), Cls({"E", "e"}), Lit("d"), Opt(Lit("s")), Opt(Lit(".")), Lit(")")>>)
ed_flag == Opt(Grp("ed", ed))                                \* (?P<ed>{ed})?
booktitle == Grp("booktitle", Plus(Dot))                     \* (?P<booktitle>.+)
journal == Grp("journal", Cat(<<NCls(Lower), PlusL(Dot)>>))  \* (?P<journal>[^a-z].+?)
note == Grp("note", Star(Dot))                               \* (?P<note>.*)
\* \(?(MA|Master's|Masters|Master|M\. ?A\.) [Tt]hesis\)?
mathesis ==
  Cat(<<Opt(Lit("(")),
        Grp("1", Alt(<<Lit("MA"), Lit("Master's"), Lit("Masters"), Lit("Master"),
                       Cat(<<Lit("M."), Opt(Sp), Lit("A.")>>)>>)),
        Sp, Cls({"T", "t"}), Lit("hesis"), Opt(Lit(")"))>>)
\* \(?([Dd]octoral|PhD|Ph\.D\.)? ?([Tt]hesis|[Dd]issertation)\)?
phdthesis ==
  Cat(<<Opt(Lit("(")),
        Opt(Grp("1", Alt(<<Cat(<<Cls({"D", "d"}), Lit("octoral")>>), Lit("PhD"), Lit("Ph.D.")>>))),
        Opt(Sp),
        Grp("2", Alt(<<Cat(<<Cls({"T", "t"}), Lit("hesis")>>), Cat(<<Cls({"D", "d"}), Lit("issertation")>>)>>)),
        Opt(Lit(")"))>>)
\* (?P<address>.+) *:(?!/) *(?P<publisher>[^:]\.?[^.]+)
pubaddr ==
  Cat(<<Grp("address", Plus(Dot)), Star(Sp), Lit(":"), NotAhead(Lit("/")), Star(Sp),
        Grp("publisher", Cat(<<NCls({":"}), Opt(Lit(".")), Plus(NCls({"."}))>>))>>)
\* (?:(?P<address>.+?) *:(?!//|doi:|handle:) *)?(?P<publisher>.+)
pubaddrng ==
  Cat(<<Opt(Cat(<<Grp("address", PlusL(Dot)), Star(Sp), Lit(":"),
                  NotAhead(Alt(<<Lit("//"), Lit("doi:"), Lit("handle:")>>)), Star(Sp)>>)),
        Grp("publisher", Plus(Dot))>>)
\* (?:pp\.?|p\.?|pages|Page[s]?)\s*
pword ==
  Cat(<<Alt(<<Cat(<<Lit("pp"), Opt(Lit("."))>>), Cat(<<Lit("p"), Opt(Lit("."))>>), Lit("pages"),
              Cat(<<Lit("Page"), Opt(Lit("s"))>>)>>), Star(S)>>)
roman == Plus(Cls(CharsOf("ivxlcdmIVXLCDM")))                \* [ivxlcdmIVXLCDM]+
arabic == Cat(<<Rep(Cls(Letter), 0, 2), Plus(D)>>)           \* [A-Za-z]{0,2}[0-9]+
\* (?:{arabic}|{roman})(?:[---/]{arabic}|{roman})?
joint == Cat(<<Alt(<<arabic, roman>>), Opt(Alt(<<Cat(<<Cls(Dashes \cup {"/"}), arabic>>), roman>>))>>)
\* (?:(?P<volume_paren>{joint}) *\((?P<number_paren>{joint})\)
\*   |(?P<volume_sep>{joint})[ ,:;]+(?:no\.|number|num\.|#)? *(?P<number_sep>{joint})
\*   |(?P<volume_only>{joint}))
volumenumber ==
  Alt(<<Cat(<<Grp("volume_paren", joint), Star(Sp), Lit("("), Grp("number_paren", joint), Lit(")")>>),
        Cat(<<Grp("volume_sep", joint), Plus(Cls({" ", ",", ":", ";"})),
              Opt(Alt(<<Lit("no."), Lit("number"), Lit("num."), Lit("#")>>)), Star(Sp),
              Grp("number_sep", joint)>>),
        Grp("volume_only", joint)>>)
\* {author}[., ]* {ed}[., ]*{year}[\., ]*{title}, with ed_flag and title_g
BOOK == Cat(<<author, Star(PSD), Sp, ed_flag, Star(PSD), year, Star(PSD), title_g>>)
\* {author}[., ]*{year}[., ]*{title}{endmark} +{journal}[.,]? {volumenumber}(?: *[.:,] *| +)?(?:{pages})?\. *{note},
\* with title_ne
ARTICLE ==
  Cat(<<author, Star(PSD), year, Star(PSD), title_ne, endmark, Plus(Sp), journal, Opt(Cls({".", ","})), Sp,
        volumenumber, Opt(Alt(<<Cat(<<Star(Sp), Cls({".", ":", ","}), Star(Sp)>>), Plus(Sp)>>)),
        Opt(pages), Lit("."), Star(Sp), note>>)
\* {author}[., ]*{year}[., ]*{title}{endmark} In:? {editor} {ed}[.,]? {booktitle}{endmark1} \(?{pages}\)?\. +{pubaddrng}
INCOLLECTION ==
  Cat(<<author, Star(PSD), year, Star(PSD), title, endmark, Lit(" In"), Opt(Lit(":")), Sp, editor, Sp, ed,
        Opt(Cls({".", ","})), Sp, booktitle, endmark1, Sp, Opt(Lit("(")), pages, Opt(Lit(")")), Lit("."),
        Plus(Sp), pubaddrng>>)
\* {author}[., ]*{year}[., ]*{title}{endmark} In:? {editor} {ed}[.,]? {booktitle}[.,]? \((?:{pword})?{pages}\)\. +{pubaddrng}
INCOLLECTIONPARENS ==
  Cat(<<author, Star(PSD), year, Star(PSD), title, endmark, Lit(" In"), Opt(Lit(":")), Sp, editor, Sp, ed,
        Opt(Cls({".", ","})), Sp, booktitle, Opt(Cls({".", ","})), Lit(" ("), Opt(pword), pages, Lit(")."),
        Plus(Sp), pubaddrng>>)
\* {author}[., ]*{year}[., ]*{title}{endmark} *In:? *{editor} *{ed}[.,]? {booktitle}
INCOLLECTIONMISSING ==
  Cat(<<author, Star(PSD), year, Star(PSD), title, endmark, Star(Sp), Lit("In"), Opt(Lit(":")), Star(Sp),
        editor, Star(Sp), ed, Opt(Cls({".", ","})), Sp, booktitle>>)
\* {author}[., ]*{year}[., ]*{title}{endmark} +{pubaddrng}\. *{mathesis}{note}
MASTERSTHESIS ==
  Cat(<<author, Star(PSD), year, Star(PSD), title, endmark, Plus(Sp), pubaddrng, Lit("."), Star(Sp),
        mathesis, note>>)
\* {author}[., ]*{year}[., ]*{title}{endmark} +{pubaddrng}\. *{phdthesis}{note}
PHDTHESIS ==
  Cat(<<author, Star(PSD), year, Star(PSD), title, endmark, Plus(Sp), pubaddrng, Lit("."), Star(Sp),
        phdthesis, note>>)
\* {author}[., ]*{year}[., ]*{title}{endmark} *{note}, with title_g
MISC == Cat(<<author, Star(PSD), year, Star(PSD), title_g, endmark, Star(Sp), note>>)
\* {year}.*{ed}
EDITOR == Cat(<<year, Star(Dot), ed>>)
PUBADDR == pubaddr

(***************************************************************************)
(* langsci.bib.bibtools: the module-level helpers                          *)
(***************************************************************************)
\* Fields to exclude from the output
excludefields ==
  {"abstract", "language", "date-added", "date-modified", "rating", "keywords", "issn", "timestamp", "owner",
   "optannote", "optkey", "optmonth", "optnumber", "url_checked", "optaddress", "eprinttype",
   "bdsk-file-1", "bdsk-file-2", "bdsk-file-3", "bdsk-url-1", "bdsk-url-2", "bdsk-url-3"}
name_fields == <<"author", "editor", "bookauthor", "translator">>

trim_braces(s) == IF StartsWith(s, "{") /\ EndsWith(s, "}") THEN SubSeq(s, 2, Len(s) - 1) ELSE s
add_braces(s) == "{" \o s \o "}"

\* d maps a field to a string or None; the result maps the fields that have
\* text to their braced text, whitespace collapsed
clean_and_brace_natural(d) ==
  LET cleaned(v) == Join(" ", SplitWs(StripWs(v)))
      kept == SelectSeq(d, LAMBDA kv : Truthy(kv[2]) /\ cleaned(kv[2][1]) # "")
  IN [i \in 1..Len(kept) |-> <<kept[i][1], add_braces(cleaned(kept[i][2][1]))>>]

\* x is self.fields.get(...): a string or None
is_real_value(x) ==
  IF x = None \/ x = Some("") THEN FALSE
  ELSE IF x = Some("{}") THEN FALSE
  ELSE IF StartsWith(x[1], "{\\biberror{") THEN FALSE
  ELSE TRUE

\* (https?://[^ ]+)\.?$
extract_url_re ==
  Cat(<<Grp("1", Cat(<<Lit("http"), Opt(Lit("s")), Lit("://"), Plus(NCls({" "}))>>)), Opt(Lit(".")), Eol>>)
\* the tail before the match, cleaned, and group 1; the tail and None without a match
tail_and_group(tail, match) ==
  IF match.ok THEN <<RStrip(SubSeq(tail, 1, match.from - 1), {" ", ".", ","}), Group(match, "1")>>
  ELSE <<tail, None>>
\* the cleaned tail and the URL or None
extract_url(tail) == tail_and_group(tail, ReSearch(extract_url_re, tail))

\* (?:doi(?::| )\s*)?(10\.\d{4,9}/[-._;()/:A-Za-z0-9]+)\.?$, re.IGNORECASE
extract_doi_re ==
  Cat(<<Opt(Cat(<<LitI("doi"), Alt(<<Lit(":"), Lit(" ")>>), Star(S)>>)),
        Grp("1", Cat(<<Lit("10."), Rep(D, 4, 9), Lit("/"), Plus(Cls(CharsOf("-._;()/:") \cup Letter \cup Digit))>>)),
        Opt(Lit(".")), Eol>>)
extract_doi(tail) == tail_and_group(tail, ReSearch(extract_doi_re, tail))

\* ^(.+?)([.!?]) ([^:]+?): ([^:]+?)\.?$
extract_pubaddr_re ==
  Cat(<<Bol, Grp("1", PlusL(Dot)), Grp("2", Cls({".", "!", "?"})), Sp, Grp("3", PlusL(NCls({":"}))), Lit(": "),
        Grp("4", PlusL(NCls({":"}))), Opt(Lit(".")), Eol>>)
pubaddr_of(tail, match) ==
  IF match.ok
  THEN <<StripWs(G(match, "1") \o (IF G(match, "2") \in {"!", "?"} THEN G(match, "2") ELSE "")),
         << <<"address", Some(StripWs(G(match, "3")))>>, <<"publisher", Some(StripWs(G(match, "4")))>> >> >>
  ELSE <<tail, EmptyDict>>
\* the cleaned tail and a dict with address and publisher, empty without a match
extract_pubaddr(tail) == pubaddr_of(tail, ReSearch(extract_pubaddr_re, tail))

\* ^(?P<newtitle>.*?)\s*\((?P<series>.+?)\s+(?P<number>[-.0-9/]+)\)\s*$
extract_seriesnumber_re ==
  Cat(<<Bol, Grp("newtitle", StarL(Dot)), Star(S), Lit("("), Grp("series", PlusL(Dot)), Plus(S),
        Grp("number", Plus(Cls(Digit \cup {"-", ".", "/"}))), Lit(")"), Star(S), Eol>>)
seriesnumber_of(tail, match) ==
  IF match.ok
  THEN <<Strip(G(match, "newtitle"), {" ", "."}),
         << <<"series", Some(StripWs(G(match, "series")))>>, <<"number", Some(StripWs(G(match, "number")))>> >> >>
  ELSE <<tail, EmptyDict>>
\* the cleaned title and a dict with series and number, empty for None
extract_seriesnumber(tail) == seriesnumber_of(tail, ReSearch(extract_seriesnumber_re, tail))

\* ^ *{pages}[ .,;:]*
extract_pages_from_note_re == Cat(<<Bol, Star(Sp), pages, Star(Cls({" ", ".", ",", ";", ":"}))>>)
pages_of_note(note_, match) ==
  IF match.ok
  THEN <<Some(StripWs(G(match, "pages"))), Some(LStrip(SubSeq(note_[1], match.to, Len(note_[1])), Space))>>
  ELSE <<None, note_>>
\* note is a string or None; the pages or None, and the note
extract_pages_from_note(note_) ==
  IF Falsy(note_) THEN <<None, note_>>
  ELSE pages_of_note(note_, ReMatch(extract_pages_from_note_re, note_[1]))

\* [.,]?\s*\(?\b(pp\.?|p\.)\b.*$
clean_booktitle_re ==
  Cat(<<Opt(Cls({".", ","})), Star(S), Opt(Lit("(")), WordB,
        Grp("1", Alt(<<Cat(<<Lit("pp"), Opt(Lit("."))>>), Lit("p.")>>)), WordB, Star(Dot), Eol>>)
clean_booktitle(booktitle_) == StripWs(ReSub(clean_booktitle_re, LAMBDA m : "", booktitle_))

\* value is a string or None. The hyphen or None, and whether the test
\* (h in value) raises TypeError, as it does for None
get_hyphen(value) ==
  IF value = None THEN [raises |-> TRUE, h |-> None]
  ELSE [raises |-> FALSE,
        h |-> IF Contains(value[1], EnDash) THEN Some(EnDash)
              ELSE IF Contains(value[1], EmDash) THEN Some(EmDash)
              ELSE IF Contains(value[1], "-") THEN Some("-")
              ELSE None]

is_joint_parts(parts) ==
  IF Len(parts) # 2 THEN FALSE
  ELSE IF ~IsInt(parts[1]) \/ ~IsInt(parts[2]) THEN FALSE
  ELSE 0 < IntOf(parts[2]) - IntOf(parts[1]) /\ IntOf(parts[2]) - IntOf(parts[1]) <= 3
is_joint_issue(value, hyphen) == is_joint_parts(Split(value, hyphen))

(***************************************************************************)
(* class Record. A record has the attributes of the Python object:         *)
(* defined is the set of the attributes typ, key and fields that have been *)
(* assigned. raised is the exception that left the constructor, or None.   *)
(***************************************************************************)
NewRecord(s) ==
  [raw_entry |-> s, parsing_failed |-> FALSE, errors |-> <<>>, defined |-> {},
   typ |-> "", key |-> None, fields |-> EmptyDict, raised |-> None]
AddError(r, e) == [r EXCEPT !.errors = Append(@, e)]
SetField(r, k, v) == [r EXCEPT !.fields = DictSet(@, k, v)]
DelField(r, k) == [r EXCEPT !.fields = DictDel(@, k)]
\* self.fields.get(k)
Field(r, k) == DictGet(r.fields, k)
HasField(r, k) == DictHas(r.fields, k)

\* \s*,\s*}$
last_comma_re == Cat(<<Star(S), Lit(","), Star(S), Lit("}"), Eol>>)
\* (?<=\})[ \t]*,[ \t]*\n\s*
field_split_re ==
  Cat(<<Behind(Lit("}")), Star(Cls({" ", "\t"})), Lit(","), Star(Cls({" ", "\t"})), Lit("\n"), Star(S)>>)
\* \s+
whitespace_re == Plus(S)
\* ^\s*(\w+)\s*=\s*\{\s*(.*?)\s*\}\s*,?\s*$
braced_value_re ==
  Cat(<<Bol, Star(S), Grp("1", Plus(W)), Star(S), Lit("="), Star(S), Lit("{"), Star(S), Grp("2", StarL(Dot)),
        Star(S), Lit("}"), Star(S), Opt(Lit(",")), Star(S), Eol>>)
\* ^\s*(\w+)\s*=\s*"\s*([^"]*?)\s*"\s*,?\s*(.*)$
quoted_value_re ==
  Cat(<<Bol, Star(S), Grp("1", Plus(W)), Star(S), Lit("="), Star(S), Lit("\""), Star(S),
        Grp("2", StarL(NCls({"\""}))), Star(S), Lit("\""), Star(S), Opt(Lit(",")), Star(S),
        Grp("3", Star(Dot)), Eol>>)
\* ^\s*(\w+)\s*=\s*([^,{}"]*)\s*,?\s*(.*)$
unbraced_value_re ==
  Cat(<<Bol, Star(S), Grp("1", Plus(W)), Star(S), Lit("="), Star(S), Grp("2", Star(NCls({",", "{", "}", "\""}))),
        Star(S), Opt(Lit(",")), Star(S), Grp("3", Star(Dot)), Eol>>)

\* the while loop over one line: the fields after it
RECURSIVE parse_line(_, _)
RECURSIVE parse_remainder(_, _)
RECURSIVE parse_pair(_, _, _)
RECURSIVE parse_unbraced(_, _)
RECURSIVE parse_quoted(_, _, _)
RECURSIVE parse_braced(_, _, _)
\* the remainder with blanks in the place of the pair taken off the line
Blanks == "                                                                                                    "
remainder_blanked(match) == SubSeq(Blanks, 1, Min2(Len(Blanks), Len(match.s) - Len(G(match, "3")))) \o G(match, "3")
\* field, value, remainder = match.groups(): the remainder of the line
remainder_of(match) == G(match, "3")
\* line = remainder; the loop goes on while there is a line
parse_remainder(fields, remainder) == IF remainder # "" THEN parse_line(fields, remainder) ELSE fields
\* the quoted and the unbraced case: the value, braced or not, and the rest of the line
parse_pair(fields, match, value) ==
  parse_remainder(IF G(match, "2") # "" THEN DictSet(fields, ToLower(G(match, "1")), value) ELSE fields,
                  remainder_of(match))
parse_unbraced(fields, match) == IF match.ok THEN parse_pair(fields, match, G(match, "2")) ELSE fields
parse_quoted(fields, line, match) ==
  IF match.ok THEN parse_pair(fields, match, add_braces(G(match, "2")))
  ELSE parse_unbraced(fields, ReMatch(unbraced_value_re, line))
parse_braced(fields, line, match) ==
  IF match.ok
  THEN (IF G(match, "2") = "" THEN fields
        ELSE DictSet(fields, ToLower(G(match, "1")), add_braces(G(match, "2"))))
  ELSE parse_quoted(fields, line, ReMatch(quoted_value_re, line))
parse_line(fields, line) ==
  IF line = "" THEN fields ELSE parse_braced(fields, line, ReMatch(braced_value_re, line))

\* one iteration of the while loop: the line that the loop goes on with, None
\* when the iteration ends the loop
next_of_pair(match) == IF remainder_of(match) # "" THEN Some(remainder_of(match)) ELSE None
next_line(line) ==
  IF ReMatch(braced_value_re, line).ok THEN None
  ELSE IF ReMatch(quoted_value_re, line).ok THEN next_of_pair(ReMatch(quoted_value_re, line))
  ELSE IF ReMatch(unbraced_value_re, line).ok THEN next_of_pair(ReMatch(unbraced_value_re, line))
  ELSE None

\* the for loop over the lines, from line i on
RECURSIVE parse_lines(_, _, _)
parse_lines(fields, lines, i) ==
  After(fields, IF i > Len(lines) THEN fields ELSE parse_lines(parse_line(fields, lines[i]), lines, i + 1))

\* the lines of the fields: the last comma removed, split, whitespace collapsed
clean_lines(split) == [i \in 1..Len(split) |-> ReSub(whitespace_re, LAMBDA x : " ", StripWs(split[i]))]
field_lines(remainder) ==
  clean_lines(ReSplit(field_split_re, ReSub(last_comma_re, LAMBDA x : "}", StripWs(remainder))))
\* self.fields = fields, and the test that some field was parsed
with_fields(named, fields) ==
  IF fields = EmptyDict
  THEN [AddError([named EXCEPT !.fields = fields, !.defined = {"typ", "key", "fields"}],
                 "No fields parsed from BibTeX entry") EXCEPT !.parsing_failed = TRUE]
  ELSE [named EXCEPT !.fields = fields, !.defined = {"typ", "key", "fields"}]
\* the test of the key against the registry, and its registration
register_key(checked, registry) ==
  [r |-> IF checked.key[1] \in registry THEN AddError(checked, "duplicate key " \o checked.key[1]) ELSE checked,
   keys |-> registry \cup {checked.key[1]}]
parse_fields(named, lines, registry) ==
  IF \A i \in 1..Len(lines) : lines[i] = ""
  THEN [r |-> [AddError(named, "No valid field/value lines found") EXCEPT !.parsing_failed = TRUE],
        keys |-> registry]
  ELSE register_key(with_fields(named, parse_lines(EmptyDict, lines, 1)), registry)
parse_header(r, m, registry) ==
  IF ~m.ok THEN [r |-> [r EXCEPT !.parsing_failed = TRUE], keys |-> registry]
  ELSE parse_fields([r EXCEPT !.typ = ToLower(G(m, "1")), !.key = Some(G(m, "2")), !.defined = {"typ", "key"}],
                    field_lines(G(m, "3")), registry)
\* parse_bibtex on the new record r and the registry keys: the record and the registry after it
parse_bibtex(r, s, registry) == parse_header(r, ReMatch(TYPKEYFIELDS, s), registry)

\* d.get(k) for a dict d of parse_natural, whose values are strings or None
DGet(d, k) == IF DictHas(d, k) THEN DictAt(d, k) ELSE None
\* d[k] = m.group(k) for the groups ks, in this order
RECURSIVE SetGroups(_, _, _, _)
SetGroups(d, m, ks, i) ==
  After(d, IF i > Len(ks) THEN d ELSE SetGroups(DictSet(d, ks[i], Group(m, ks[i])), m, ks, i + 1))
\* d.update(e)
RECURSIVE DictUpdate(_, _, _)
DictUpdate(d, e, i) ==
  After(d, IF i > Len(e) THEN d ELSE DictUpdate(DictSet(d, e[i][1], e[i][2]), e, i + 1))
\* tail, url = extract_url(tail); if url: d["url"] = url; the same for the
\* doi: the dict and the tail after both
SetIf(d, k, v) == IF Truthy(v) THEN DictSet(d, k, v) ELSE d
Taken(d, k, found) == [d |-> SetIf(d, k, found[2]), tail |-> found[1]]
ExtractDoi(e) == Taken(e.d, "doi", extract_doi(e.tail))
ExtractUrlDoi(d, tail) == ExtractDoi(Taken(d, "url", extract_url(tail)))
\* x if x.strip() else None
TextOrNone(x) == IF StripWs(x) # "" THEN Some(x) ELSE None

\* the branches of the grammars of parse_natural: the type and the dict d
\* that the branch leaves, and whether it raises TypeError
Parsed(typ, d) == [typ |-> typ, d |-> d, raises |-> FALSE]
thesis_branch(typ, m) ==
  Parsed(typ, DictSet(DictSet(SetGroups(EmptyDict, m, <<"author", "title", "endmark", "year", "extrayear", "address">>, 1),
                              "school", Group(m, "publisher")),
                      "note", Group(m, "note")))
incollection_groups(m, withEndmark1) ==
  SetGroups(DictSet(SetGroups(EmptyDict, m, <<"author", "editor", "year", "extrayear", "title", "endmark">>, 1),
                    "booktitle", Some(clean_booktitle(G(m, "booktitle")))),
            m, IF withEndmark1 THEN <<"endmark1", "pages", "address", "publisher">>
               ELSE <<"pages", "address", "publisher">>, 1)
incollection_publisher(e) ==
  Parsed("incollection",
         DictSet(e.d, "publisher", IF StripWs(e.tail) # "" THEN Some(RStrip(e.tail, {" ", "."})) ELSE None))
incollection_branch(m, withEndmark1) ==
  incollection_publisher(ExtractUrlDoi(incollection_groups(m, withEndmark1), G(m, "publisher")))
incollectionmissing_booktitle(d, pa) ==
  Parsed("incollection", DictSet(DictUpdate(d, pa[2], 1), "booktitle", TextOrNone(pa[1])))
incollectionmissing_pubaddr(e) == incollectionmissing_booktitle(e.d, extract_pubaddr(e.tail))
incollectionmissing_branch(m) ==
  incollectionmissing_pubaddr(
    ExtractUrlDoi(SetGroups(EmptyDict, m, <<"author", "editor", "year", "extrayear", "title", "endmark", "booktitle">>, 1),
                  G(m, "booktitle")))
\* the article without pages: number has a hyphen; found is what
\* extract_pages_from_note gave, the pages and the cleaned note
article_joint(d, number, note_, is_joint, found) ==
  IF is_joint /\ Truthy(found[1])
  THEN Parsed("article", DictSet(DictSet(DictSet(d, "number", number), "pages", found[1]), "note", found[2]))
  ELSE IF is_joint /\ Falsy(found[1])
  THEN Parsed("article", DictSet(DictSet(DictSet(d, "pages", number), "number", None), "note", note_))
  ELSE IF ~is_joint /\ Truthy(found[1])
  THEN Parsed("article", DictSet(DictSet(d, "pages", Some(number[1] \o ", " \o found[1][1])), "note", found[2]))
  ELSE Parsed("article", DictSet(DictSet(DictSet(d, "pages", number), "number", None), "note", note_))
article_hyphen(d, number, note_, hyphen) ==
  IF hyphen.raises THEN [typ |-> "article", d |-> d, raises |-> TRUE]
  ELSE IF Falsy(hyphen.h) THEN Parsed("article", DictSet(d, "note", note_))
  ELSE article_joint(d, number, note_, is_joint_issue(number[1], hyphen.h[1]), extract_pages_from_note(note_))
article_pages(d, number, pages_, note_) ==
  IF Truthy(pages_) THEN Parsed("article", DictSet(DictSet(SetIf(d, "number", number), "pages", pages_), "note", note_))
  ELSE article_hyphen(SetIf(d, "number", number), number, note_, get_hyphen(number))
article_branch(m) ==
  article_pages(DictSet(SetGroups(EmptyDict, m, <<"author", "year", "extrayear", "title", "endmark", "journal">>, 1),
                        "volume",
                        OrElse(Group(m, "volume_paren"), OrElse(Group(m, "volume_sep"), Group(m, "volume_only")))),
                OrElse(Group(m, "number_paren"), Group(m, "number_sep")), Group(m, "pages"), Group(m, "note"))
book_creator(m) ==
  IF Truthy(Group(m, "ed"))
  THEN DictSet(DictSet(DictSet(EmptyDict, "author", Group(m, "author")), "editor", Group(m, "author")), "author", None)
  ELSE DictSet(EmptyDict, "author", Group(m, "author"))
book_title(d, sn) == Parsed("book", DictSet(DictUpdate(d, sn[2], 1), "title", TextOrNone(sn[1])))
book_seriesnumber(e) == book_title(e.d, extract_seriesnumber(e.tail))
book_updated(d, pa) == [d |-> DictUpdate(d, pa[2], 1), tail |-> pa[1]]
book_pubaddr(e, has_pubaddr) == IF has_pubaddr THEN book_updated(e.d, extract_pubaddr(e.tail)) ELSE e
book_branch(m, has_pubaddr) ==
  book_seriesnumber(book_pubaddr(ExtractUrlDoi(SetGroups(book_creator(m), m, <<"year", "extrayear", "title">>, 1),
                                               G(m, "title")),
                                 has_pubaddr))
misc_branch(m) ==
  Parsed("misc", SetGroups(EmptyDict, m, <<"author", "year", "extrayear", "title", "endmark", "note">>, 1))

\* the chain of grammars: the first branch whose test succeeds, and no
\* other; the record keeps type misc and an empty dict if none does
grammar_misc(m) == IF m.ok THEN misc_branch(m) ELSE Parsed("misc", EmptyDict)
grammar_book_checked(m, has_pubaddr) ==
  IF Truthy(Group(m, "ed")) \/ has_pubaddr THEN book_branch(m, has_pubaddr) ELSE Parsed("misc", EmptyDict)
grammar_book(s, m) ==
  IF m.ok THEN grammar_book_checked(m, ReSearch(PUBADDR, s).ok) ELSE grammar_misc(ReSearch(MISC, s))
grammar_article(s, m) == IF m.ok THEN article_branch(m) ELSE grammar_book(s, ReMatch(BOOK, s))
grammar_incollectionmissing(s, m) ==
  IF m.ok THEN incollectionmissing_branch(m) ELSE grammar_article(s, ReSearch(ARTICLE, s))
grammar_incollectionparens(s, m) ==
  IF m.ok THEN incollection_branch(m, FALSE) ELSE grammar_incollectionmissing(s, ReSearch(INCOLLECTIONMISSING, s))
grammar_incollection(s, m) ==
  IF m.ok THEN incollection_branch(m, TRUE) ELSE grammar_incollectionparens(s, ReSearch(INCOLLECTIONPARENS, s))
grammar_editor(s, has_editor) ==
  IF has_editor THEN grammar_incollection(s, ReSearch(INCOLLECTION, s)) ELSE grammar_article(s, ReSearch(ARTICLE, s))
grammar_phdthesis(s, m) ==
  IF m.ok THEN thesis_branch("phdthesis", m) ELSE grammar_editor(s, ReSearch(EDITOR, s).ok)
grammar_mastersthesis(s, m) ==
  IF m.ok THEN thesis_branch("mastersthesis", m) ELSE grammar_phdthesis(s, ReSearch(PHDTHESIS, s))
grammar_chain(s) == grammar_mastersthesis(s, ReSearch(MASTERSTHESIS, s))

\* Find doi and url in note; clean note
cleaned_note(e) ==
  DictSet(e.d, "note", IF Strip(e.tail, {" ", "."}) # "" THEN Some(Strip(e.tail, {" ", "."})) ELSE None)
clean_note(d) ==
  IF DGet(d, "note") # None /\ StripWs(DGet(d, "note")[1]) # ""
  THEN cleaned_note(ExtractUrlDoi(d, DGet(d, "note")[1]))
  ELSE d
\* Restore endmark to title, endmark1 to booktitle
restore_endmark(d, mark, field) ==
  IF Truthy(DGet(d, mark))
  THEN DictDel(IF DGet(d, mark)[1] \in {"!", "?"} /\ Truthy(DGet(d, field))
               THEN DictSet(d, field, Some(DGet(d, field)[1] \o DGet(d, mark)[1]))
               ELSE d,
               mark)
  ELSE d
\* Replace ampersand in author or editor
replace_ampersand(d, field) ==
  IF Truthy(DGet(d, field)) THEN DictSet(d, field, Some(Replace(DGet(d, field)[1], " &", " and "))) ELSE d
\* Find series and number in booktitle
booktitle_updated(d, sn) ==
  IF sn[2] # EmptyDict THEN DictSet(DictUpdate(d, sn[2], 1), "booktitle", TextOrNone(sn[1])) ELSE d
booktitle_series(d) ==
  IF Truthy(DGet(d, "booktitle")) THEN booktitle_updated(d, extract_seriesnumber(DGet(d, "booktitle")[1])) ELSE d
Last(xs) == xs[Len(xs)]
\* Set key from author/editor, year, extrayear
creator_of(d) ==
  IF Truthy(DGet(d, "author")) THEN DGet(d, "author")[1]
  ELSE IF Truthy(DGet(d, "editor")) THEN DGet(d, "editor")[1] ELSE ""
creatorpart_of(d) ==
  IF Truthy(DGet(d, "author")) THEN Replace(Split(DGet(d, "author")[1], ",")[1], " ", "")
  ELSE IF Truthy(DGet(d, "editor")) THEN Split(Split(DGet(d, "editor")[1], ",")[1], " ")[1]
  ELSE "Anonymous"
yearpart_of(year_, extrayear) ==
  IF Truthy(year_) /\ extrayear # None THEN SubSeq(year_[1], 1, Min2(4, Len(year_[1]))) \o extrayear[1]
  ELSE "9999"
secondpart_of(secondcreator) ==
  IF Contains(secondcreator, ",") THEN Split(secondcreator, ",")[1]
  ELSE IF Contains(secondcreator, " ") THEN Last(Split(secondcreator, " "))
  ELSE secondcreator
\* the key without the part of the second contributor
key_of_first(creatorpart, authorcount, creator, yearpart) == creatorpart \o yearpart
key_parts(creatorpart, authorcount, creator, yearpart) ==
  creatorpart \o (IF authorcount > 2 THEN "EtAl"
                  ELSE IF authorcount = 2 THEN secondpart_of(StripWs(Last(Split(creator, " and "))))
                  ELSE "")
              \o yearpart
key_of_creator(d, creator) ==
  key_parts(creatorpart_of(d), 1 + Count(creator, " and ") + Count(creator, "&"), creator,
            yearpart_of(DGet(d, "year"), IF DictHas(d, "extrayear") THEN DictAt(d, "extrayear") ELSE Some("")))
synthesize_key(d) == key_of_creator(d, creator_of(d))

\* the final processing of parse_natural: the key and the fields of the dict
finish_natural(start, typ, d) ==
  [start EXCEPT !.typ = typ, !.key = Some(synthesize_key(d)),
                !.fields = clean_and_brace_natural(DictDel(d, "extrayear")), !.defined = {"typ", "key", "fields"}]
\* the dict of the grammar after the steps from the note to the booktitle
postprocessed(d) ==
  booktitle_series(
    replace_ampersand(
      replace_ampersand(
        restore_endmark(restore_endmark(clean_note(d), "endmark", "title"), "endmark1", "booktitle"),
        "author"),
      "editor"))
parse_grammar(start, g) ==
  IF g.raises THEN [start EXCEPT !.typ = g.typ, !.raised = Some("TypeError")]
  ELSE finish_natural(start, g.typ, postprocessed(g.d))
parse_stripped(start, s) ==
  IF s = "" THEN [start EXCEPT !.parsing_failed = TRUE] ELSE parse_grammar(start, grammar_chain(s))
\* parse_natural on the new record r
parse_natural(r, s0) ==
  parse_stripped([r EXCEPT !.parsing_failed = FALSE, !.typ = "misc", !.key = None, !.defined = {"typ", "key"}],
                 StripWs(s0))

(***************************************************************************)
(* The checks of conform. Each maps the record to the record after it.     *)
(***************************************************************************)
\* if cond: self.errors.append(e)
AddErrorIf(r, cond, e) == IF cond THEN AddError(r, e) ELSE r
\* one pair (old, new) of fieldaliases
remap_alias(r, old, new) ==
  IF is_real_value(Field(r, old))
  THEN IF ~is_real_value(Field(r, new))
       THEN DelField(AddError(SetField(r, new, Field(r, old)[1]),
                              "Remapped '" \o old \o "' to '" \o new \o "'"), old)
       ELSE AddError(r, "Both '" \o old \o "' and '" \o new \o "' present; no remap applied")
  ELSE r
remap_eventtitle(r) ==
  IF r.typ = "inproceedings" /\ is_real_value(Field(r, "eventtitle")) /\ ~is_real_value(Field(r, "booktitle"))
  THEN AddError(SetField(r, "booktitle", Field(r, "eventtitle")[1]), "Remapped 'eventtitle' to 'booktitle'")
  ELSE r
remap_fields(r) ==
  remap_eventtitle(remap_alias(remap_alias(remap_alias(r, "location", "address"), "date", "year"),
                               "journaltitle", "journal"))

\* ^\d+\s*(pp\.?|pages)$, re.IGNORECASE
page_count_re ==
  Cat(<<Bol, Plus(D), Star(S), Grp("1", Alt(<<Cat(<<LitI("pp"), Opt(Lit("."))>>), LitI("pages")>>)), Eol>>)
\* \s*(?:-+|U+2012|U+2013|U+2014|U+2212)+\s*; of the dashes the figure dash
\* and the minus sign are outside the alphabet of the model
page_dash_re == Cat(<<Star(S), Plus(Alt(<<Plus(Lit("-")), Lit(EnDash), Lit(EmDash)>>)), Star(S)>>)
\* \s*[;,]\s*
page_sep_re == Cat(<<Star(S), Cls({";", ","}), Star(S)>>)
\* (?:[a-zA-Z]?\d+|[ivxlcdm]+)
page_unit == Alt(<<Cat(<<Opt(Cls(Letter)), Plus(D)>>), Plus(Cls(CharsOf("ivxlcdm")))>>)
page_range == Cat(<<page_unit, Lit("--"), page_unit>>)
page_entry == Alt(<<page_unit, page_range>>)
\* ^{entry}(?:, {entry})*$
standard_pages_re == Cat(<<Bol, page_entry, Star(Cat(<<Lit(", "), page_entry>>)), Eol>>)
\* ^[IVXLCDM]+--[IVXLCDM]+$
range_Roman == Cat(<<Bol, Plus(Cls(CharsOf("IVXLCDM"))), Lit("--"), Plus(Cls(CharsOf("IVXLCDM"))), Eol>>)
\* ({unit})--({unit})
range_capture == Cat(<<Grp("1", page_unit), Lit("--"), Grp("2", page_unit)>>)

\* Convert "page" to "pages" if needed
page_to_pages(r) ==
  IF HasField(r, "page") /\ ~HasField(r, "pages") THEN DelField(SetField(r, "pages", Field(r, "page")[1]), "page") ELSE r
\* Normalize dashes; replace semicolons with commas
pages_normalized(trimmed) ==
  ReSub(page_sep_re, LAMBDA m : ", ", ReSub(page_dash_re, LAMBDA m : "--", trimmed))
\* Parse article id by changing it to pages
pages_of_id(normalized, match) == IF match.ok THEN G(match, "1") ELSE normalized
\* Flag redundant range
pages_weird(r, pages_, match) ==
  AddErrorIf(r, match.ok /\ G(match, "1") = G(match, "2"), "weird range: " \o pages_)
\* the three flags, and self.fields["pages"] = add_braces(pages)
pages_flagged(r, pages_) ==
  SetField(pages_weird(AddErrorIf(AddErrorIf(r, ~ReMatch(standard_pages_re, pages_).ok,
                                             "non-standard pages: " \o pages_),
                                  ReMatch(range_Roman, pages_).ok, "capital Roman numerals in pages: " \o pages_),
                       pages_, ReFullMatch(range_capture, pages_)),
           "pages", add_braces(pages_))
pages_kept(r, normalized) == pages_flagged(r, pages_of_id(normalized, ReMatch(ARTICLE_ID_RE, normalized)))
pages_trimmed(r, trimmed) ==
  IF trimmed = "" THEN DelField(r, "pages")
  ELSE IF ToLower(trimmed) = "none" THEN DelField(r, "pages")
  ELSE IF ReMatch(page_count_re, trimmed).ok THEN DelField(r, "pages")
  ELSE pages_kept(r, pages_normalized(trimmed))
pages_present(r) ==
  IF ~HasField(r, "pages") \/ StripWs(Field(r, "pages")[1]) = "" THEN r
  ELSE pages_trimmed(r, trim_braces(Field(r, "pages")[1]))
\* the pages left as the entry has them
pages_as_given(r) == r
checkpages(r) == pages_present(page_to_pages(r))

checkbooktitle(r) ==
  IF r.typ \notin {"inproceedings", "incollection", "inbook"}
     /\ ~is_real_value(Field(r, "title")) /\ is_real_value(Field(r, "booktitle"))
  THEN DelField(AddError(SetField(r, "title", Field(r, "booktitle")[1]), "moved booktitle to title"), "booktitle")
  ELSE r

\* ^\{(.*?)[,:;. ]+\}$ and ^\{[,:;. ]+(.*?)\}$
trailing_re == Cat(<<Bol, Lit("{"), Grp("1", StarL(Dot)), Plus(Cls(CharsOf(",:;. "))), Lit("}"), Eol>>)
leading_re == Cat(<<Bol, Lit("{"), Plus(Cls(CharsOf(",:;. "))), Grp("1", StarL(Dot)), Lit("}"), Eol>>)
\* the text with group 1 of the match braced in its place
rebraced(text, match) == IF match.ok THEN add_braces(G(match, "1")) ELSE text
without_trailing(text) == rebraced(text, ReSearch(trailing_re, text))
without_leading(text) == rebraced(text, ReSearch(leading_re, text))
volume_moved(r, fieldname, value, volume_match, titlelike) ==
  IF titlelike = "{}" THEN AddError(r, fieldname \o " is just " \o value)
  ELSE IF HasField(r, "volume")
       THEN (IF trim_braces(Field(r, "volume")[1]) = volume_match
             THEN AddError(SetField(r, fieldname, titlelike), "deleted redundant volume in " \o fieldname)
             ELSE AddError(r, "mismatch: volume " \o trim_braces(Field(r, "volume")[1]) \o " but " \o value))
  ELSE AddError(SetField(SetField(r, fieldname, titlelike), "volume", add_braces(volume_match)),
                "Moved volume " \o volume_match \o " from " \o fieldname)
volume_matched(r, fieldname, value, match) ==
  IF ~match.ok THEN r
  ELSE volume_moved(r, fieldname, value, G(match, "3"),
                    without_leading(without_trailing(Replace(value, Whole(match), ""))))
move_volume(r, fieldname) ==
  IF ~HasField(r, fieldname) \/ ~is_real_value(Field(r, fieldname)) THEN r
  ELSE volume_matched(r, fieldname, Field(r, fieldname)[1], ReSearch(TITLEVOLUME_RE, Field(r, fieldname)[1]))
volume_of_booktitle(r) ==
  IF r.typ \in {"incollection", "inproceedings", "inbook"} THEN move_volume(r, "booktitle") ELSE r
volume_of_title(r) == IF r.typ = "book" THEN move_volume(r, "title") ELSE r
checkvolumenumber(r) == volume_of_booktitle(volume_of_title(r))

\* ([A-Z])\.([A-Z]),  ([A-Z])(?= ),  ([A-Z])}$,  [A-Z][A-Z]  and  [A-Z][A-Z]}$
initials_re == Cat(<<Grp("1", Cls(Upper)), Lit("."), Grp("2", Cls(Upper))>>)
initial_re == Cat(<<Sp, Grp("1", Cls(Upper)), Ahead(Sp)>>)
finalinitial_re == Cat(<<Sp, Grp("1", Cls(Upper)), Lit("}"), Eol>>)
capcap_re == Cat(<<Sp, Cls(Upper), Cls(Upper), Sp>>)
finalcapcap_re == Cat(<<Sp, Cls(Upper), Cls(Upper), Lit("}"), Eol>>)
initials_spaced(value) ==
  ReSub(finalinitial_re, LAMBDA m : " " \o G(m, "1") \o ".}",
        ReSub(initial_re, LAMBDA m : " " \o G(m, "1") \o ".",
              ReSub(initials_re, LAMBDA m : G(m, "1") \o ". " \o G(m, "2"), value)))
initials_set(r, f, value) ==
  SetField(AddErrorIf(r, ReSearch(capcap_re, value).ok \/ ReSearch(finalcapcap_re, value).ok,
                      "possible double initials: " \o Field(r, f)[1]),
           f, value)
checkinitials_field(r, f) ==
  IF is_real_value(Field(r, f)) THEN initials_set(r, f, initials_spaced(Field(r, f)[1])) ELSE r
\* the loop of a check over name_fields
OverNames(r, Step(_, _)) ==
  After(r, Step(Step(Step(Step(r, name_fields[1]), name_fields[2]), name_fields[3]), name_fields[4]))
checkinitials(r) == OverNames(r, checkinitials_field)

ampersand_set(r, f, value) ==
  AddErrorIf(SetField(r, f, value), ReSearch(AMP_RE, value).ok, "unescaped ampersand " \o f \o ": " \o value)
checkampersand_name(r, f) ==
  IF is_real_value(Field(r, f))
  THEN ampersand_set(r, f, Replace(Replace(Field(r, f)[1], " & ", " and "), " \\& ", " and "))
  ELSE r
checkampersand_other(r, f) ==
  IF is_real_value(Field(r, f)) THEN ampersand_set(r, f, Replace(Field(r, f)[1], " & ", " \\& ")) ELSE r
ampersand_fields ==
  <<"address", "publisher", "school", "institution", "journal", "series", "title", "booktitle", "maintitle",
    "subtitle", "volume", "number", "note", "howpublished", "addendum">>
\* the loop over ampersand_fields, from field i on
RECURSIVE checkampersand_others(_, _)
checkampersand_others(r, i) ==
  After(r, IF i > Len(ampersand_fields) THEN r
           ELSE checkampersand_others(checkampersand_other(r, ampersand_fields[i]), i + 1))
checkampersand(r) == checkampersand_others(OverNames(r, checkampersand_name), 1)

checkand_field(r, f) ==
  IF is_real_value(Field(r, f)) /\ Count(Field(r, f)[1], ",") > Count(Field(r, f)[1], " and ") + 1
  THEN AddError(r, "problem with commas in " \o f \o ": " \o Field(r, f)[1])
  ELSE r
checkand(r) == OverNames(r, checkand_field)

\*  et\.? al
etal_re == Cat(<<Lit(" et"), Opt(Lit(".")), Lit(" al")>>)
etal_set(r, f, replaced) == AddError(SetField(r, f, replaced), "literal et al " \o f \o ": " \o replaced)
checketal_field(r, f) ==
  IF Truthy(Field(r, f)) /\ ReSearch(etal_re, Field(r, f)[1]).ok
  THEN etal_set(r, f, ReSub(etal_re, LAMBDA m : " \\biberror{et al}", Field(r, f)[1]))
  ELSE r
checketal(r) == OverNames(r, checketal_field)

ordinal_map ==
  << <<"first", "1">>, <<"1st", "1">>, <<"second", "2">>, <<"2nd", "2">>, <<"third", "3">>, <<"3rd", "3">>,
     <<"fourth", "4">>, <<"4th", "4">>, <<"fifth", "5">>, <<"5th", "5">>, <<"sixth", "6">>, <<"6th", "6">>,
     <<"seventh", "7">>, <<"7th", "7">>, <<"eighth", "8">>, <<"8th", "8">>, <<"ninth", "9">>, <<"9th", "9">>,
     <<"tenth", "10">>, <<"10th", "10">> >>
edition_keywords == {"ed", "ed.", "edn", "edn.", "edition"}
checkedition(r) ==
  LET raw == Field(r, "edition")[1]
      lowered == ToLower(trim_braces(raw))
      parts == SplitWs(lowered)
      candidate == IF (Len(parts) = 2 /\ parts[2] \in edition_keywords) \/ Len(parts) = 1 THEN Some(parts[1]) ELSE None
      edn == IF Truthy(candidate) /\ IsDigits(candidate[1]) THEN candidate[1]
             ELSE IF Truthy(candidate) /\ DictHas(ordinal_map, candidate[1]) THEN DictAt(ordinal_map, candidate[1])
             ELSE lowered
  IN IF Falsy(Field(r, "edition")) THEN r
     ELSE IF IsInt(edn) THEN SetField(r, "edition", add_braces(edn))
     ELSE AddError(r, "incorrect format for edition: " \o raw)

month_map ==
  << <<"jan", 1>>, <<"feb", 2>>, <<"mar", 3>>, <<"apr", 4>>, <<"may", 5>>, <<"jun", 6>>,
     <<"jul", 7>>, <<"aug", 8>>, <<"sep", 9>>, <<"oct", 10>>, <<"nov", 11>>, <<"dec", 12>>,
     <<"january", 1>>, <<"february", 2>>, <<"march", 3>>, <<"april", 4>>, <<"june", 6>>, <<"july", 7>>,
     <<"august", 8>>, <<"september", 9>>, <<"october", 10>>, <<"november", 11>>, <<"december", 12>> >>
checkmonth(r) ==
  LET raw == Field(r, "month")[1]
      lowered == ToLower(IF Contains(raw, "{") THEN trim_braces(raw) ELSE raw)
      unpadded == IF StartsWith(lowered, "0") /\ Len(lowered) = 2 THEN SubSeq(lowered, 2, 2) ELSE lowered
      cleaned == IF DictHas(month_map, unpadded) THEN NatToStr(DictAt(month_map, unpadded)) ELSE unpadded
  IN IF Falsy(Field(r, "month")) THEN r
     ELSE IF raw = "{}" THEN DelField(r, "month")
     ELSE IF IsInt(cleaned) /\ 1 <= IntOf(cleaned) /\ IntOf(cleaned) <= 12
          THEN SetField(r, "month", add_braces(cleaned))
     ELSE DelField(AddError(r, "incorrect format for month: " \o raw), "month")

\* checkurl. Cases 1 to 3, taken when there is no url: the record, and
\* whether checkurl returns there
HandleUrl == "http://hdl.handle.net/"
\* Case 2: Move url from stableurl or opturl
url_moved(r) ==
  IF HasField(r, "stableurl") THEN DelField(SetField(r, "url", Field(r, "stableurl")[1]), "stableurl")
  ELSE IF HasField(r, "opturl") THEN DelField(SetField(r, "url", Field(r, "opturl")[1]), "opturl")
  ELSE r
\* Case 3: Flag url in note-like field
url_in_note(r, f) ==
  AddErrorIf(r, HasField(r, f) /\ Contains(Field(r, f)[1], "http"), "URL found in " \o f \o ": " \o Field(r, f)[1])
url_elsewhere(r) ==
  [r |-> url_in_note(url_in_note(url_in_note(url_moved(r), "note"), "addendum"), "annote"), done |-> FALSE]
\* Case 1: Get url from handle
url_of_handle(r, match) ==
  IF match.ok
  THEN [r |-> DelField(SetField(r, "url", add_braces(HandleUrl \o G(match, "1"))), "handle"), done |-> TRUE]
  ELSE url_elsewhere(r)
checkurl_find(r) ==
  IF Truthy(Field(r, "url")) THEN [r |-> r, done |-> FALSE]
  ELSE IF HasField(r, "handle") THEN url_of_handle(r, ReFullMatch(HANDLE_RE, trim_braces(Field(r, "handle")[1])))
  ELSE url_elsewhere(r)
\* match.lastindex for a pattern with groups 1..n
LastIndex(m, n) == MaxOf({0} \cup {k \in 1..n : Group(m, NatToStr(k)) # None})
\* the url without its space: the record, the url, whether checkurl returns there
url_like(spaced, url, found) ==
  IF found.ok THEN [r |-> spaced, url |-> G(found, "1"), done |-> FALSE]
  ELSE [r |-> SetField(AddError(spaced, "url has space and nothing url-like: " \o url),
                       "url", "{\\biberror{remove space and check url: " \o url \o "}}"),
        url |-> url, done |-> TRUE]
url_with_date(spaced, url, match) ==
  IF match.ok /\ LastIndex(match, 1) >= 2
  \* match.group(2) of a pattern with one group
  THEN [r |-> [spaced EXCEPT !.raised = Some("IndexError")], url |-> url, done |-> TRUE]
  ELSE url_like(spaced, url, ReSearch(URL_RE, url))
checkurl_space(r, url) ==
  IF Count(url, " ") = 0 THEN [r |-> r, url |-> url, done |-> FALSE]
  ELSE url_with_date(AddError(r, "space in url"), url, ReSearch(URL_URLDATE_RE, url))
\* Check for doi in url by whitelist of publishers or generic
doi_of_domain(r, url_domain, trusted, doi) ==
  IF ~trusted
  THEN [r |-> AddError(r, "DOI-like string found in generic URL: " \o doi \o " from " \o url_domain),
        done |-> FALSE]
  ELSE IF HasField(r, "doi")
  THEN [r |-> IF ToLower(Field(r, "doi")[1]) # ToLower(add_braces(doi))
              THEN AddError(r, "DOI mismatch: extracted from URL (" \o doi
                               \o ") differs from existing DOI (" \o Field(r, "doi")[1] \o ")")
              ELSE DelField(r, "url"),
        done |-> FALSE]
  ELSE [r |-> DelField(AddError(SetField(r, "doi", add_braces(doi)),
                                "DOI set from trusted URL: " \o doi \o " via " \o url_domain), "url"),
        done |-> TRUE]
doi_in_url(r, url_domain, trusted, doi_match) ==
  IF ~doi_match.ok THEN [r |-> r, done |-> FALSE] ELSE doi_of_domain(r, url_domain, trusted, G(doi_match, "1"))
domain_trusted(r, url, url_domain, trusted) ==
  doi_in_url(r, url_domain, trusted,
             IF trusted THEN ReSearch(DictAt(DOI_WHITELIST_RE, url_domain), url) ELSE ReSearch(GENERIC_DOI_RE, url))
domain_of_url(r, url, domain_match) ==
  IF ~domain_match.ok THEN [r |-> r, done |-> FALSE]
  ELSE domain_trusted(r, url, G(domain_match, "1"), DictHas(DOI_WHITELIST_RE, G(domain_match, "1")))
checkurl_domain(r, url) == domain_of_url(r, url, ReMatch(DOMAIN_RE, url))
\* check if url *is* doi
url_is_doi(r, match) ==
  IF ~match.ok THEN [r |-> r, done |-> FALSE]
  ELSE IF Truthy(Field(r, "doi"))
       THEN [r |-> IF ToLower(trim_braces(Field(r, "doi")[1])) # ToLower(G(match, "1"))
                   THEN AddError(r, "DOI mismatch: extracted from URL field (" \o G(match, "1")
                                    \o ") differs from existing DOI field (" \o trim_braces(Field(r, "doi")[1]) \o ")")
                   ELSE DelField(r, "url"),
             done |-> TRUE]
  ELSE [r |-> DelField(AddError(SetField(r, "doi", add_braces(G(match, "1"))),
                                "DOI set from URL field: " \o G(match, "1")), "url"),
        done |-> TRUE]
checkurl_isdoi(r, url) == url_is_doi(r, ReFullMatch(DOI_RE, url))
nonsites == <<"ebrary", "degruyter", "myilibrary", "academia", "ebscohost", "researchgate">>
\* Remove trailing period if present
Unstopped(text) == IF EndsWith(text, ".") THEN SubSeq(text, 1, Len(text) - 1) ELSE text
url_nonsites(r, url, hits) ==
  [r EXCEPT !.errors = @ \o [i \in 1..Len(hits) |->
     "use url only for for true repositories or for material not available elsewhere: " \o url]]
url_kept(r, url) == IF url # "" THEN SetField(r, "url", add_braces(url)) ELSE r
url_not_doi(url, isdoi) ==
  IF isdoi.done THEN isdoi.r
  ELSE url_kept(url_nonsites(isdoi.r, url, SelectSeq(nonsites, LAMBDA n : Contains(url, n))), url)
url_domain_checked(url, dm) == IF dm.done THEN dm.r ELSE url_not_doi(url, checkurl_isdoi(dm.r, url))
url_space_checked(sp) ==
  IF sp.done THEN sp.r
  ELSE url_domain_checked(sp.url, checkurl_domain(AddErrorIf(sp.r, Count(sp.url, ",") > 0, "comma in url: " \o sp.url),
                                                  sp.url))
url_trimmed(r, url) ==
  IF url = "" THEN DelField(r, "url")
  ELSE IF StartsWith(url, "file:") THEN DelField(r, "url")
  ELSE url_space_checked(checkurl_space(AddErrorIf(r, ~StartsWith(url, "http"), "url does not start with http"), url))
url_found(f) ==
  IF f.done THEN f.r
  ELSE IF Falsy(Field(f.r, "url")) THEN f.r
  ELSE url_trimmed(f.r, Unstopped(trim_braces(Field(f.r, "url")[1])))
checkurl(r) == url_found(checkurl_find(r))

\* datetime.strptime(s, "%Y-%m-%d"): %Y is \d\d\d\d, %m is 1[0-2]|0[1-9]|[1-9],
\* %d is 3[01]|[12]\d|0[1-9]|[1-9]| [1-9]
strptime_re ==
  Cat(<<Grp("Y", Cat(<<D, D, D, D>>)), Lit("-"),
        Grp("m", Alt(<<Cat(<<Lit("1"), Cls({"0", "1", "2"})>>), Cat(<<Lit("0"), Cls(Digit \ {"0"})>>), Cls(Digit \ {"0"})>>)),
        Lit("-"),
        Grp("d", Alt(<<Cat(<<Lit("3"), Cls({"0", "1"})>>), Cat(<<Cls({"1", "2"}), D>>), Cat(<<Lit("0"), Cls(Digit \ {"0"})>>),
                       Cls(Digit \ {"0"}), Cat(<<Sp, Cls(Digit \ {"0"})>>)>>))>>)
IsLeap(y) == (y % 4 = 0 /\ y % 100 # 0) \/ y % 400 = 0
DaysIn(y, m) == IF m = 2 THEN (IF IsLeap(y) THEN 29 ELSE 28) ELSE IF m \in {4, 6, 9, 11} THEN 30 ELSE 31
Pad2(n) == IF n < 10 THEN "0" \o NatToStr(n) ELSE NatToStr(n)
strftime(y, m, d) ==
  IF y < 1 \/ d > DaysIn(y, m) THEN None ELSE Some(NatToStr(y) \o "-" \o Pad2(m) \o "-" \o Pad2(d))
strptime(s, match) ==
  IF ~match.ok \/ match.to # Len(s) + 1 THEN None
  ELSE strftime(IntOf(G(match, "Y")), IntOf(G(match, "m")), IntOf(G(match, "d")))
\* the date formatted again by strftime("%Y-%m-%d"), or None for ValueError
strptime_strftime(s) == strptime(s, ReMatch(strptime_re, s))
urldate_formatted(r, clean_date, dt) ==
  IF dt # None THEN SetField(r, "urldate", add_braces(dt[1]))
  ELSE AddError(r, "invalid urldate format: " \o clean_date)
urldate_validated(r) ==
  IF Falsy(Field(r, "urldate")) THEN r
  ELSE urldate_formatted(r, trim_braces(Field(r, "urldate")[1]), strptime_strftime(trim_braces(Field(r, "urldate")[1])))
isodate_in_note(r, f) ==
  AddErrorIf(r, Truthy(Field(r, f)) /\ ReSearch(ISO_DATE_RE, trim_braces(Field(r, f)[1])).ok,
             "ISO-like date found in " \o f \o ": " \o trim_braces(Field(r, f)[1]))
urldate_in_note(r) ==
  IF r.typ = "misc" /\ Truthy(Field(r, "url")) /\ Falsy(Field(r, "urldate"))
  THEN isodate_in_note(isodate_in_note(isodate_in_note(r, "note"), "addendum"), "annote")
  ELSE r
checkurldate(r) ==
  urldate_in_note(urldate_validated(AddErrorIf(r, Truthy(Field(r, "urldate")) /\ Falsy(Field(r, "url")),
                                               "urldate exists but url is missing")))

\* \bdoi:\s*,  \bhttps?://(?:dx\.)?doi\.org/  and  \bdoi\.org/, re.IGNORECASE
doi_prefix_re == Cat(<<WordB, LitI("doi:"), Star(S)>>)
doi_url_re == Cat(<<WordB, LitI("http"), Opt(LitI("s")), Lit("://"), Opt(LitI("dx.")), LitI("doi.org/")>>)
doi_org_re == Cat(<<WordB, LitI("doi.org/")>>)
HandleUrlS == "https://hdl.handle.net/"
doi_fixed(r, raw, doi) ==
  IF ~HasField(r, "url")
  THEN AddError(SetField(r, "doi", add_braces(doi)), "DOI extracted from URL-like string: " \o doi)
  ELSE IF Contains(Field(r, "url")[1], doi)
  THEN AddError(DelField(SetField(r, "doi", add_braces(doi)), "url"), "fix doi, delete similar: " \o doi)
  ELSE AddError(SetField(r, "doi", add_braces(doi)),
                "fix doi, keep url: check both: url = " \o Field(r, "url")[1] \o ", doi = " \o raw)
doi_urllike(r, raw, doi_match) ==
  IF ~doi_match.ok THEN AddError(DelField(r, "doi"), "delete url-like doi that doesnt' have a DOI: " \o raw)
  ELSE doi_fixed(r, raw, G(doi_match, "1"))
doi_invalid(r, raw) ==
  IF StartsWith(ToLower(raw), "http") THEN doi_urllike(r, raw, ReSearch(DOI_RE, raw))
  ELSE AddError(DelField(r, "doi"), "Invalid DOI: " \o raw)
doi_handle_url(r, raw, handle_match, url) ==
  IF handle_match.ok /\ HasField(r, "url") /\ Field(r, "url")[1] = url
  THEN AddError(DelField(r, "doi"), "Deleted handle in doi; keep matching url: " \o url)
  ELSE IF handle_match.ok /\ ~HasField(r, "url")
  THEN AddError(SetField(DelField(r, "doi"), "url", url),
                "Handle detected in doi and converted to URL: " \o G(handle_match, "1"))
  ELSE doi_invalid(AddErrorIf(r, handle_match.ok,
                              "Possible handle in doi doesn't match url; check both: doi = " \o raw \o ", url = " \o url),
                   raw)
doi_handle(r, raw, handle_match) ==
  doi_handle_url(r, raw, handle_match, add_braces(HandleUrlS \o G(handle_match, "1")))
doi_matched(r, original, raw, match) ==
  IF match.ok
  THEN SetField(AddErrorIf(r, G(match, "1") # original, "DOI extracted and normalized: " \o G(match, "1")),
                "doi", add_braces(G(match, "1")))
  ELSE doi_handle(r, raw, ReFullMatch(HANDLE_RE, raw))
doi_raw(original) ==
  ReSub(doi_org_re, LAMBDA m : "",
        ReSub(doi_url_re, LAMBDA m : "",
              ReSub(doi_prefix_re, LAMBDA m : "", Replace(Unstopped(original), "\\_", "_"))))
doi_normalized(r, original, raw) == doi_matched(r, original, raw, ReFullMatch(DOI_RE, raw))
checkdoi(r) ==
  IF Falsy(Field(r, "doi")) THEN r
  ELSE doi_normalized(r, trim_braces(Field(r, "doi")[1]), doi_raw(trim_braces(Field(r, "doi")[1])))

checkquestionmarks(r) ==
  LET hits == SelectSeq(r.fields, LAMBDA kv : kv[2] # "" /\ Contains(kv[2], "??"))
  IN [r EXCEPT !.errors = @ \o [i \in 1..Len(hits) |-> "?? in " \o hits[i][1]]]

thesis_hit(r, f) == is_real_value(Field(r, f)) /\ ReSearch(THESIS_RE, Field(r, f)[1]).ok
thesis_flag(r, f) == AddError(r, "possible thesis indicator in " \o f \o ": " \o Field(r, f)[1])
checkbookisthesis(r) ==
  IF r.typ # "book" THEN r
  ELSE IF thesis_hit(r, "publisher") THEN thesis_flag(r, "publisher")
  ELSE IF thesis_hit(r, "url") THEN thesis_flag(r, "url")
  ELSE IF thesis_hit(r, "note") THEN thesis_flag(r, "note")
  ELSE r

\*  ([A-Z]) 
lone_capital_re == Cat(<<Sp, Grp("1", Cls(Upper)), Sp>>)
\* protected.replace(group, "{%s}" % group) for the matches ms from i on
RECURSIVE protect_nouns(_, _, _)
protect_nouns(protected, ms, i) ==
  After(protected,
        IF i > Len(ms) THEN protected
        ELSE protect_nouns(Replace(protected, G(ms[i], "1"), "{" \o G(ms[i], "1") \o "}"), ms, i + 1))
title_fields == <<"title", "booktitle", "subtitle", "maintitle", "mainsubtitle", "booksubtitle">>
\* the subtitle capital, the camel case words, the lone capitals and the proper nouns in braces
nouns_protected(text) == protect_nouns(text, ReFindAll(PRESERVATIONPATTERN, text), 1)
proceedings_protected(text) == IF ReSearch(PROCEEDINGS_RE, text).ok THEN add_braces(text) ELSE text
title_protected(original) ==
  proceedings_protected(
    nouns_protected(
      ReSub(lone_capital_re, LAMBDA m : " {{" \o G(m, "1") \o "}} ",
            ReSub(CAMELCASE_RE, LAMBDA m : "{" \o G(m, "1") \o "}",
                  ReSub(MAINTITLE_RE, LAMBDA m : G(m, "1") \o " " \o add_braces(ToUpper(G(m, "2"))), original)))))
title_changed(r, field, original, protected) ==
  IF original # protected THEN SetField(r, field, add_braces(protected)) ELSE r
title_checked(r, field, original, protected) ==
  title_changed(AddErrorIf(r, ReSearch(PROCEEDINGS_LC_RE, protected).ok,
                           "Proper name of proceedings/conference not capitalized/protected?: " \o protected),
                field, original, protected)
checkdecapitalization_field(r, field) ==
  IF Falsy(Field(r, field)) THEN r
  ELSE title_checked(r, field, trim_braces(Field(r, field)[1]), title_protected(trim_braces(Field(r, field)[1])))
\* the loop over title_fields, from field i on
RECURSIVE checkdecapitalization_fields(_, _)
checkdecapitalization_fields(r, i) ==
  After(r, IF i > Len(title_fields) THEN r
           ELSE checkdecapitalization_fields(checkdecapitalization_field(r, title_fields[i]), i + 1))
\* the protection applied whatever the language
decapitalization_of_any_language(r) == checkdecapitalization_fields(r, 1)
checkdecapitalization(r) ==
  IF HasField(r, "langid") /\ trim_braces(Field(r, "langid")[1]) \in {"german", "ngerman", "de"} THEN r
  ELSE checkdecapitalization_fields(r, 1)

\* the diagnostic of the missing field put before the others
handleerror_first(r, m) ==
  IF Falsy(Field(r, m))
  THEN [SetField(r, m, "{\\biberror{no " \o m \o "}}") EXCEPT !.errors = <<"missing " \o m>> \o @]
  ELSE r
handleerror(r, m) ==
  IF Falsy(Field(r, m)) THEN AddError(SetField(r, m, "{\\biberror{no " \o m \o "}}"), "missing " \o m) ELSE r
\* for m in ms: self.handleerror(m)
RECURSIVE handleerrors(_, _, _)
handleerrors(r, ms, i) ==
  After(r, IF i > Len(ms) THEN r ELSE handleerrors(handleerror(r, ms[i]), ms, i + 1))
\* add an additional field for sorting: paused, it changes nothing
addsortname(r) == r

requirepages(r) ==
  IF Falsy(Field(r, "pages"))
  THEN (IF Falsy(Field(r, "url")) /\ Falsy(Field(r, "doi")) THEN handleerror(r, "pages") ELSE AddError(r, "no pages"))
  ELSE r

\* self.fields.get(k, "")
FieldOrEmpty(r, k) == IF HasField(r, k) THEN Field(r, k)[1] ELSE ""
publisher_separated(r) ==
  AddErrorIf(r, FieldOrEmpty(r, "publisher") # "" /\ Contains(FieldOrEmpty(r, "publisher"), ": "),
             "separate address from publisher: " \o FieldOrEmpty(r, "publisher"))
publisher_expanded(r) ==
  IF FieldOrEmpty(r, "publisher") # "" /\ DictHas(PUBLISHER_FULL, FieldOrEmpty(r, "publisher"))
  THEN SetField(r, "publisher", DictAt(PUBLISHER_FULL, FieldOrEmpty(r, "publisher")))
  ELSE r
\* the entries of PUBLISHER_ADDRESS of which a key is in the publisher
address_hits(publisher_lower) ==
  {i \in 1..Len(PUBLISHER_ADDRESS) :
     \E j \in 1..Len(PUBLISHER_ADDRESS[i][1]) : Contains(publisher_lower, PUBLISHER_ADDRESS[i][1][j])}
address_filled(r, address, hits) ==
  IF address # "" THEN AddErrorIf(r, Contains(address, ", "), "use one place only: " \o address)
  ELSE IF hits # {} THEN SetField(r, "address", PUBLISHER_ADDRESS[MinOf(hits)][2])
  ELSE r
address_checked(r) == address_filled(r, FieldOrEmpty(r, "address"), address_hits(ToLower(FieldOrEmpty(r, "publisher"))))
checkpublisheraddress(r) == address_checked(publisher_expanded(publisher_separated(r)))

number_to_volume(r) ==
  IF Field(r, "volume") = None /\ Field(r, "number") # None
  THEN DelField(SetField(r, "volume", Field(r, "number")[1]), "number") ELSE r
checkarticle(r) ==
  IF r.typ # "article" THEN r
  ELSE requirepages(addsortname(handleerrors(number_to_volume(r), <<"author", "year", "title", "journal", "volume">>, 1)))

\* \s.*?(Thesis|Dissertation)
titlecase_type_re == Cat(<<S, StarL(Dot), Grp("1", Alt(<<Lit("Thesis"), Lit("Dissertation")>>))>>)
institution_to_school(r) ==
  IF Field(r, "school") = None /\ Field(r, "institution") # None
  THEN DelField(SetField(r, "school", Field(r, "institution")[1]), "institution") ELSE r
school_expanded(r) ==
  IF Field(r, "school") # None /\ DictHas(SCHOOL_FULL, Field(r, "school")[1])
  THEN SetField(r, "school", DictAt(SCHOOL_FULL, Field(r, "school")[1])) ELSE r
school_address(r) ==
  IF Field(r, "address") = None /\ Field(r, "school") # None /\ DictHas(SCHOOL_ADDRESS, Field(r, "school")[1])
  THEN SetField(r, "address", DictAt(SCHOOL_ADDRESS, Field(r, "school")[1])) ELSE r
thesis_type(r) == IF r.typ = "thesis" THEN handleerror(r, "type") ELSE r
type_in_titlecase(r) ==
  AddErrorIf(r, Truthy(Field(r, "type")) /\ ReSearch(titlecase_type_re, Field(r, "type")[1]).ok,
             "type field may be in Title Case: " \o Field(r, "type")[1])
checkthesis(r) ==
  IF r.typ \notin {"phdthesis", "mastersthesis", "thesis"} THEN r
  ELSE type_in_titlecase(
         thesis_type(
           addsortname(handleerrors(school_address(school_expanded(institution_to_school(r))),
                                    <<"author", "title", "address", "school", "year">>, 1))))

volume_to_number(r) ==
  IF Field(r, "series") # None /\ Field(r, "volume") # None /\ Field(r, "number") = None
  THEN DelField(SetField(r, "number", Field(r, "volume")[1]), "volume") ELSE r
author_or_editor(r) ==
  IF Truthy(Field(r, "author")) /\ Truthy(Field(r, "editor")) THEN addsortname(AddError(r, "both author and editor"))
  ELSE IF Truthy(Field(r, "author")) \/ Truthy(Field(r, "editor")) THEN addsortname(r)
  ELSE handleerror(AddError(r, "no author or editor"), "author")
book_without_pages(r) == AddErrorIf(r, is_real_value(Field(r, "pages")), "book shouldn't have pages")
checkbook(r) ==
  IF r.typ # "book" THEN r
  ELSE book_without_pages(
         author_or_editor(
           volume_to_number(handleerrors(checkpublisheraddress(r), <<"year", "title", "address", "publisher">>, 1))))

\* the checks that incollection, inproceedings and inbook begin with
chapter_required(r) == handleerror(addsortname(handleerror(checkpublisheraddress(r), "author")), "title")
incollection_book(r, booktitle_, is_proceedings) ==
  IF HasField(r, "crossref") THEN r
  ELSE IF booktitle_ # ""
       THEN (IF ~is_proceedings THEN handleerrors(handleerror(r, "year"), <<"editor", "publisher", "address">>, 1)
             ELSE handleerror(r, "year"))
  ELSE handleerrors(handleerror(r, "year"), <<"booktitle", "editor", "publisher", "address">>, 1)
incollection_proceedings(r, is_proceedings) ==
  incollection_book(AddErrorIf(r, is_proceedings, "booktitle suggests proceedings: use @inproceedings for proceedings"),
                    FieldOrEmpty(r, "booktitle"), is_proceedings)
incollection_booktitle(r) ==
  incollection_proceedings(r, ReSearch(PROCEEDINGS_FUZZY_RE, FieldOrEmpty(r, "booktitle")).ok)
checkincollection(r) ==
  IF r.typ # "incollection" THEN r ELSE incollection_booktitle(requirepages(chapter_required(r)))

\* booktitle and year required of every entry
inproceedings_required(r) == handleerrors(r, <<"booktitle", "year">>, 1)
inproceedings_book(r) == IF ~HasField(r, "crossref") THEN handleerrors(r, <<"booktitle", "year">>, 1) ELSE r
checkinproceedings(r) ==
  IF r.typ # "inproceedings" THEN r ELSE inproceedings_book(requirepages(chapter_required(r)))

\* f"{author}" of a string or None
Fmt(o) == IF o = None THEN "None" ELSE o[1]
chapter_or_pages(r) ==
  IF Falsy(Field(r, "chapter")) /\ Falsy(Field(r, "pages"))
  THEN handleerrors(AddError(r, "@inbook entry must have either 'chapter' or 'pages'"), <<"chapter", "pages">>, 1)
  ELSE r
editor_or_bookauthor(r) ==
  IF Truthy(Field(r, "editor")) /\ Truthy(Field(r, "bookauthor"))
  THEN AddError(r, "@inbook has bookauthor and editor. Is the entry really @incollection for a chapter by "
                   \o Fmt(Field(r, "author")) \o " in book edited by " \o Field(r, "editor")[1]
                   \o ", or @inbook for a contribution by " \o Fmt(Field(r, "author"))
                   \o " in a book authored by " \o Field(r, "bookauthor")[1] \o "?")
  ELSE IF Truthy(Field(r, "editor"))
  THEN AddError(r, "If " \o Field(r, "editor")[1]
                   \o " is really the editor of the book, then use @incollection instead of @inbook. If "
                   \o Field(r, "editor")[1]
                   \o " is actually the author of the book, then use the 'bookauthor' field instead.")
  ELSE IF Falsy(Field(r, "bookauthor")) THEN handleerror(AddError(r, "Who is the author of the book?"), "bookauthor")
  ELSE r
inbook_book(r) ==
  IF HasField(r, "crossref") THEN r
  ELSE handleerrors(editor_or_bookauthor(handleerrors(r, <<"year", "booktitle">>, 1)), <<"publisher", "address">>, 1)
checkinbook(r) == IF r.typ # "inbook" THEN r ELSE inbook_book(chapter_or_pages(chapter_required(r)))

note_or_howpublished(r) ==
  AddErrorIf(r, Field(r, "note") = None /\ Field(r, "howpublished") = None, "no note or howpublished")
\* the check of misc on an entry of any type
misc_of_any_type(r) == note_or_howpublished(handleerrors(r, <<"author", "title", "year">>, 1))
checkmisc(r) == IF r.typ # "misc" THEN r ELSE note_or_howpublished(handleerrors(r, <<"author", "title", "year">>, 1))

known_types ==
  {"article", "book", "inbook", "incollection", "inproceedings", "thesis", "phdthesis", "mastersthesis", "misc"}
checkothertype(r) ==
  IF r.typ \in known_types THEN r
  ELSE checkpublisheraddress(addsortname(handleerrors(r, <<"author", "title", "year">>, 1)))

\* conform: the checks in the order of their calls
checks ==
  <<"remap_fields", "checkpages", "checkbooktitle", "checkvolumenumber", "checkinitials", "checkampersand",
    "checketal", "checkand", "checkedition", "checkurl", "checkurldate", "checkdoi", "checkquestionmarks",
    "checkbookisthesis", "checkmonth", "checkdecapitalization",
    "checkarticle", "checkthesis", "checkbook", "checkincollection", "checkinproceedings", "checkinbook",
    "checkmisc", "checkothertype">>
apply_check(name, r) ==
  CASE name = "remap_fields" -> remap_fields(r)
    [] name = "checkpages" -> checkpages(r)
    [] name = "checkbooktitle" -> checkbooktitle(r)
    [] name = "checkvolumenumber" -> checkvolumenumber(r)
    [] name = "checkinitials" -> checkinitials(r)
    [] name = "checkampersand" -> checkampersand(r)
    [] name = "checketal" -> checketal(r)
    [] name = "checkand" -> checkand(r)
    [] name = "checkedition" -> checkedition(r)
    [] name = "checkurl" -> checkurl(r)
    [] name = "checkurldate" -> checkurldate(r)
    [] name = "checkdoi" -> checkdoi(r)
    [] name = "checkquestionmarks" -> checkquestionmarks(r)
    [] name = "checkbookisthesis" -> checkbookisthesis(r)
    [] name = "checkmonth" -> checkmonth(r)
    [] name = "checkdecapitalization" -> checkdecapitalization(r)
    [] name = "checkarticle" -> checkarticle(r)
    [] name = "checkthesis" -> checkthesis(r)
    [] name = "checkbook" -> checkbook(r)
    [] name = "checkincollection" -> checkincollection(r)
    [] name = "checkinproceedings" -> checkinproceedings(r)
    [] name = "checkinbook" -> checkinbook(r)
    [] name = "checkmisc" -> checkmisc(r)
    [] name = "checkothertype" -> checkothertype(r)
\* the calls lo..hi of conform, one after the other; an exception ends them
RECURSIVE run_checks(_, _, _)
run_checks(r, lo, hi) ==
  IF lo > hi \/ r.raised # None THEN r
  ELSE IF lo = hi THEN apply_check(checks[lo], r)
  ELSE run_checks(run_checks(r, lo, (lo + hi) \div 2), (lo + hi) \div 2 + 1, hi)
conform(r) == run_checks(r, 1, Len(checks))

\* report: the line it prints, or None when it prints nothing
report(r, restricting, wanted) ==
  IF "key" \notin r.defined THEN None
  ELSE IF Len(r.errors) > 0 /\ (~restricting \/ r.key[1] \in wanted)
       THEN Some(r.key[1] \o " " \o Join("\n  ", <<"  ">> \o r.errors))
       ELSE None

\* the record with every field of the field map, in sorted order
bibtex_all_fields(r, restricting, wanted) ==
  LET names == SortedBy(DictKeys(r.fields), LAMBDA f : f, FALSE)
      lines == [i \in 1..Len(names) |-> names[i] \o " = " \o DictAt(r.fields, names[i])]
  IN IF r.parsing_failed \/ "typ" \notin r.defined \/ (restricting /\ r.key[1] \notin wanted) THEN ""
     ELSE "@" \o r.typ \o "{" \o r.key[1] \o ",\n\t" \o Join(",\n\t", lines) \o "\n}"
\* bibtex: the rendered record, "" for no record
bibtex(r, restricting, wanted) ==
  LET names == SortedBy(DictKeys(r.fields), LAMBDA f : f, FALSE)
      shown == SelectSeq(names, LAMBDA f : f \notin excludefields)
      lines == [i \in 1..Len(shown) |-> shown[i] \o " = " \o DictAt(r.fields, shown[i])]
      s == "@" \o r.typ \o "{" \o r.key[1] \o ",\n\t" \o Join(",\n\t", lines) \o "\n}"
  IN IF r.parsing_failed THEN ""
     ELSE IF "typ" \notin r.defined THEN ""
     ELSE IF restricting /\ r.key[1] \notin wanted THEN ""
     ELSE Replace(s, ",,", ",")

\* Record(s, bibtexformat): the record and the registry keys after the
\* constructor; a record with raised set is the one the exception left behind
conformed(parsed) ==
  IF parsed.r.raised # None \/ parsed.r.parsing_failed THEN parsed
  ELSE [r |-> conform(parsed.r), keys |-> parsed.keys]
Record(s, structured, registry) ==
  conformed(IF structured THEN parse_bibtex(NewRecord(s), s, registry)
            ELSE [r |-> parse_natural(NewRecord(s), s), keys |-> registry])

(***************************************************************************)
(* normalize(s, inkeysd, restrict, bibtexformat). inkeysd is the set of    *)
(* the keys of the dict, whose values are true.                            *)
(***************************************************************************)
\* \n\s*@
entry_split_re == Cat(<<Lit("\n"), Star(S), Lit("@")>>)
\* the input split into the preamble and the entry candidates
split_entries(s, bibtex_entries) ==
  IF StartsWith(s, "@")
  THEN [preamble |-> "", input_entries |-> [bibtex_entries EXCEPT ![1] = LStrip(@, {"@"})]]
  ELSE [preamble |-> StripWs(bibtex_entries[1]), input_entries |-> Tail(bibtex_entries)]
split_lines(lines) ==
  [preamble |-> "",
   input_entries |-> [i \in 1..Len(lines) |-> StripWs(ReSub(whitespace_re, LAMBDA m : " ", lines[i]))]]
split_stripped(s, structured) ==
  IF structured THEN split_entries(s, ReSplit(entry_split_re, s))
  ELSE split_lines(SelectSeq(SplitLines(s), LAMBDA line : StripWs(line) # ""))
split_input(s0, structured) == split_stripped(StripWs(s0), structured)

\* the first record whose parsing failed, and no other
first_nonparsed(records) ==
  SubSeq(SelectSeq(records, LAMBDA record : record.parsing_failed), 1,
         Min2(1, Len(SelectSeq(records, LAMBDA record : record.parsing_failed))))
\* the records whose parsing failed, and their raw text joined, None without them
nonparsed_of(records) == SelectSeq(records, LAMBDA record : record.parsing_failed)
parsing_failure_of(failed, structured) ==
  IF failed = <<>> THEN None
  ELSE Some(Join("\n\n", [i \in 1..Len(failed) |->
                            (IF structured THEN "@" ELSE "") \o failed[i].raw_entry]))
\* the records in alphabetical order by key, whatever their type
sorted_by_key(records) ==
  SortedBy(SelectSeq(records, LAMBDA record : ~record.parsing_failed),
           LAMBDA record : IF Truthy(record.key) THEN record.key[1] ELSE "", FALSE)
\* the parsed records in the order of the input
parsed_in_order(records) == SelectSeq(records, LAMBDA record : ~record.parsing_failed)
\* Reverse order by type, then alphabetical order by key
sort_records(records) ==
  SortedBy(SortedBy(SelectSeq(records, LAMBDA record : ~record.parsing_failed),
                    LAMBDA record : IF Truthy(record.key) THEN record.key[1] ELSE "", FALSE),
           LAMBDA record : record.typ, TRUE)
\* the returned text
rendered(ordered, restricting, wanted) ==
  Join("\n\n", SelectSeq([i \in 1..Len(ordered) |-> bibtex(ordered[i], restricting, wanted)],
                         LAMBDA t : t # ""))
with_preamble(head, text) == IF head # "" THEN head \o "\n\n" \o text ELSE text
with_failures(parsing_failure, text) ==
  IF parsing_failure # None THEN parsing_failure[1] \o "\n\n" \o text ELSE text
output_of(ordered, head, parsing_failure, restricting, wanted) ==
  with_failures(parsing_failure, with_preamble(head, rendered(ordered, restricting, wanted)))

(***************************************************************************)
(* The inputs. A file is a preamble or none and a batch of chunks: entries *)
(* of a .bib file, or lines of a bibliography list.                        *)
(***************************************************************************)
MaxBatch == 2
MaxCalls == 2

BibEntries ==
  <<"@book{Doe2019,\n  author = {Doe, John},\n  title = {Grammar},\n  year = {2019}\n}",
    "@article{Doe2019,\n  author = {Doe, J and Roe, R},\n  title = {The ICPhS Data},\n  journal = {Lingua},\n  year = {2019},\n  pages = {12-14}\n}",
    "@book{Abe2001,\n  author = {Abe, K.},\n  title = {Proceedings of the Meeting},\n  year = {2001},\n  publisher = {Mouton},\n  address = {Berlin}\n}",
    "@garbage",
    "@misc{Abe2001, foo }",
    "@book{Abe2001,\n}">>
BibPreamble == "% Encoding: UTF-8"
Lines ==
  <<"Smith, Jane (2020). A Study of Syntax. Journal of Linguistics 12(3), 45-67.",
    "  Ray, Bo 2003.  Notes. Lingua 12, 99-113. ",
    "hello world",
    "Roe, C. 2005. Data.",
    "Smith, Jane (2020). A Study. Journal of Linguistics 12.",
    "Smith, Jane (2020). A Study. Berlin: Springer.",
    "Roe(2005) Data.",
    "   ">>
\* entries and lines that the constructor is followed on alone: each has
\* what one check of conform, or one step of the key's synthesis, works on
CheckEntries ==
  <<"article{Poe2010,\n  author = {Poe, E.},\n  title = {Ravens},\n  year = {2010},\n  volume = {3},\n  pages = {1--9}\n}",
    "book{Doe2019, author = {Doe, John}, title = {Grammar}, year = {2019}}",
    "misc{P1,\n  pages = {12-14}\n}",
    "misc{P2,\n  pages = {12~14}\n}",
    "misc{P3,\n  pages = {12^14}\n}",
    "misc{P4,\n  pages = {pp. 12-14}\n}",
    "misc{P5,\n  pages = {Article ID 123}\n}",
    "misc{P6,\n  pages = {Article 123}\n}",
    "misc{U1,\n  url = {https://doi.org/10.1515/example}\n}",
    "misc{U2,\n  url = {https://academic.oup.com/doi/10.1093/ab12}\n}",
    "misc{U3,\n  url = {https://doi.org/10.1515/example},\n  urldate = {2020-01-02}\n}",
    "misc{U4,\n  url = {https://doi.org/10.1515/Example},\n  doi = {10.1515/example}\n}",
    "misc{U5,\n  url = {http://x.org/a 2020-01-02}\n}",
    "misc{U6,\n  url = {http://x.org/a 02.01.2020}\n}",
    "misc{U7,\n  url = {http://x.org/a 2020-01-02},\n  urldate = {2019-05-06}\n}",
    "misc{U8,\n  url = {http://x.org/a},\n  doi = {10.1515/example},\n  urldate = {2020-01-02}\n}",
    "misc{U9,\n  urldate = {2020-01-02}\n}",
    "misc{U10,\n  url = {10.1515/example},\n  urldate = {2020-01-02}\n}",
    "misc{U11,\n  url = {https://www.degruyter.com/document/doi/10.1515/example/html}\n}",
    "misc{U12,\n  url = {https://academic.oup.com/doi/10.1093/AB12},\n  doi = {10.1093/ab12}\n}",
    "misc{U13,\n  url = {file:a.pdf},\n  urldate = {2020-01-02}\n}",
    "misc{U14,\n  url = {https://x.org/10.1515/example},\n  doi = {https://www.degruyter.com/10.1515/example},\n  urldate = {2020-01-02}\n}",
    "misc{U15,\n  url = {https://doi.org/10.1515/doi:abc}\n}",
    "article{Q1,\n  url = {not a url}\n}",
    "article{Q2,\n  url = {http://x.org/a}\n}",
    "article{Q3,\n  title = {T}\n}",
    "incollection{X1,\n  crossref = {B1}\n}",
    "inproceedings{X2,\n  crossref = {B1}\n}",
    "inbook{X3,\n  crossref = {B1}\n}",
    "inproceedings{X4,\n  title = {T}\n}",
    "manual{M1,\n  title = {T}\n}",
    "phdthesis{T1,\n  title = {T}\n}",
    "misc{M2,\n  month = {003}\n}",
    "misc{M3,\n  month = {Jan}\n}",
    "misc{M4,\n  month = {13}\n}",
    "misc{M5,\n  month = {05}\n}",
    "book{G1,\n  title = {Die ICPhS Daten},\n  langid = {german}\n}",
    "book{G2,\n  title = {Die ICPhS Daten},\n  langid = {ngerman}\n}",
    "book{G3,\n  title = {Die ICPhS Daten},\n  langid = de\n}",
    "misc{L1, year = 2001, month = \"jan\", note = {n}}",
    "misc{Zed2000,\n  title = {T},\n  abstract = {Long},\n  note = {n},\n  keywords = {a, b},\n  author = {Zed, A},\n  year = {2000},\n  language = {en}\n}">>
CheckLines ==
  <<"Poe, Ed and Roe, Al 2001. Data. Lingua 12, 99-113.",
    "Poe, Ed and Roe, Al and Moe, Cy 2001. Data. Lingua 12, 99-113.",
    "Poe, Ed & Al Roe 2001. Data. Lingua 12, 99-113.",
    "Mary Poe (ed.) 2001. Data. Berlin: Springer.",
    "Mary Poe and Al Roe (eds.) 2001. Data. Berlin: Springer.",
    "von Poe, Ed 2001a. Data. Lingua 12, 99-113.",
    "Anon. n.d. Data.",
    "Data without author.">>
\* the keys that the entries of BibEntries declare
CorpusKeys == {"Doe2019", "Abe2001"}
\* the callers of normalize: the wrapper script, and one that restricts the output
Callers == {[restrict |-> FALSE, inkeysd |-> {}], [restrict |-> TRUE, inkeysd |-> {"Doe2019", "Smith2020"}]}

Batches(n) == UNION {[1..k -> 1..n] : k \in 0..MaxBatch}
Files ==
  {[bibtexformat |-> TRUE, pre |-> pre, batch |-> b] : pre \in BOOLEAN, b \in Batches(Len(BibEntries))}
  \cup {[bibtexformat |-> FALSE, pre |-> FALSE, batch |-> b] : b \in Batches(Len(Lines))}
\* the text of a file
Text(f) ==
  IF f.bibtexformat
  THEN Join("\n\n", (IF f.pre THEN <<BibPreamble>> ELSE <<>>) \o [i \in 1..Len(f.batch) |-> BibEntries[f.batch[i]]]) \o "\n"
  ELSE Join("\n", [i \in 1..Len(f.batch) |-> Lines[f.batch[i]]]) \o "\n"

\* split_input and Record on the inputs above, each computed once: f @@ <<>>
\* is the function f with its values evaluated
Range(xs) == {xs[i] : i \in 1..Len(xs)}
Tabulated(f) == f @@ <<>>
SplitFiles == Tabulated([f \in Files |-> split_input(Text(f), f.bibtexformat)])
StructuredCandidates == UNION {Range(SplitFiles[f].input_entries) : f \in {g \in Files : g.bibtexformat}}
NaturalCandidates == UNION {Range(SplitFiles[f].input_entries) : f \in {g \in Files : ~g.bibtexformat}}
\* what the constructor is followed on: the candidates of the files, and
\* the entries and lines above
RecordEntries == StructuredCandidates \cup Range(CheckEntries)
RecordLines == NaturalCandidates \cup Range(CheckLines)

\* Record on every candidate: a structured one with every registry, a line
\* with the empty registry, for parse_natural does not use the registry
Constructions ==
  Tabulated([x \in ({TRUE} \X StructuredCandidates \X SUBSET CorpusKeys) \cup ({FALSE} \X NaturalCandidates \X {{}}) |->
               Record(x[2], x[1], x[3])])
\* Record(s, bibtexformat, keys)
Constructed(s, structured, registry) ==
  [Constructions[<<structured, s, IF structured THEN registry ELSE {}>>] EXCEPT !.keys = IF structured THEN @ ELSE registry]

(***************************************************************************)
(* The program. keys is the module's registry of keys. The variables from  *)
(* pc to exception are one process calling normalize: the arguments and    *)
(* the local variables of the call, and what it returned or raised. self,  *)
(* stage and ran are one call of the constructor Record(s, bibtexformat)   *)
(* followed step by step: the record, where the constructor stands and how *)
(* many calls of conform have returned.                                    *)
(***************************************************************************)
VARIABLES keys, pc, calls, bibtexformat, restrict, inkeysd, preamble, input_entries,
          processed_records, nonparsed, sorted_records, output, exception,
          self, stage, ran
normalizevars == <<pc, calls, bibtexformat, restrict, inkeysd, preamble, input_entries,
                   processed_records, nonparsed, sorted_records, output, exception>>
recordvars == <<self, stage, ran>>
vars == <<keys, normalizevars, recordvars>>

\* no call of normalize has been made
NoLocals ==
  /\ pc = "idle"
  /\ calls = 0
  /\ restrict = FALSE
  /\ inkeysd = {}
  /\ preamble = ""
  /\ input_entries = <<>>
  /\ processed_records = <<>>
  /\ nonparsed = <<>>
  /\ sorted_records = <<>>
  /\ output = None
  /\ exception = None
NoCall ==
  /\ bibtexformat = TRUE
  /\ NoLocals
\* no constructor is followed
NoRecord ==
  /\ self = NewRecord("")
  /\ stage = "none"
  /\ ran = 0

Init ==
  /\ keys = {}
  /\ NoCall
  /\ NoRecord

\* normalize is called on the text of file f by caller c: lines 1806-1830
Call(f, c) ==
  /\ pc = "idle"
  /\ calls < MaxCalls
  /\ pc' = "loop"
  /\ calls' = calls + 1
  /\ bibtexformat' = f.bibtexformat
  /\ restrict' = c.restrict
  /\ inkeysd' = c.inkeysd
  /\ preamble' = SplitFiles[f].preamble
  /\ input_entries' = SplitFiles[f].input_entries
  /\ processed_records' = <<>>
  /\ nonparsed' = <<>>
  /\ sorted_records' = <<>>
  /\ output' = None
  /\ exception' = None
  /\ UNCHANGED <<keys, recordvars>>

\* one iteration of the for loop whose Record(...) returns
Appended(made) ==
  /\ made.r.raised = None
  /\ processed_records' = Append(processed_records, made.r)
  /\ keys' = made.keys
ProcessEntry ==
  /\ pc = "loop"
  /\ Len(processed_records) < Len(input_entries)
  /\ Appended(Constructed(input_entries[Len(processed_records) + 1], bibtexformat, keys))
  /\ UNCHANGED <<pc, calls, bibtexformat, restrict, inkeysd, preamble, input_entries,
                 nonparsed, sorted_records, output, exception, recordvars>>

\* the iteration whose Record(...) raises: the except clause raises it again
Raised(made) ==
  /\ made.r.raised # None
  /\ exception' = made.r.raised
  /\ keys' = made.keys
EntryRaises ==
  /\ pc = "loop"
  /\ Len(processed_records) < Len(input_entries)
  /\ Raised(Constructed(input_entries[Len(processed_records) + 1], bibtexformat, keys))
  /\ pc' = "idle"
  /\ UNCHANGED <<calls, bibtexformat, restrict, inkeysd, preamble, input_entries,
                 processed_records, nonparsed, sorted_records, output, recordvars>>

\* after the loop: lines 1853-1888
Return ==
  /\ pc = "loop"
  /\ Len(processed_records) = Len(input_entries)
  /\ nonparsed' = nonparsed_of(processed_records)
  /\ sorted_records' = sort_records(processed_records)
  /\ output' = Some(output_of(sort_records(processed_records), preamble,
                              parsing_failure_of(nonparsed_of(processed_records), bibtexformat),
                              restrict, inkeysd))
  /\ pc' = "idle"
  /\ UNCHANGED <<keys, calls, bibtexformat, restrict, inkeysd, preamble, input_entries,
                 processed_records, exception, recordvars>>

Next ==
  \/ \E f \in Files, c \in Callers : Call(f, c)
  \/ ProcessEntry
  \/ EntryRaises
  \/ Return

Spec == Init /\ [][Next]_vars

TypeOK ==
  /\ keys \subseteq CorpusKeys
  /\ pc \in {"idle", "loop"}
  /\ calls \in 0..MaxCalls
  /\ Len(processed_records) <= Len(input_entries)

(***************************************************************************)
(* The constructor Record(s, bibtexformat), lines 245-279, step by step:   *)
(* the parse, then the calls of conform one after the other. The registry  *)
(* holds the keys that earlier records have registered.                    *)
(***************************************************************************)
ConstructInit ==
  /\ keys \in SUBSET CorpusKeys
  /\ bibtexformat \in BOOLEAN
  /\ NoLocals
  /\ self = NewRecord("")
  /\ stage = "new"
  /\ ran = 0

\* the parse has returned, or raised
Entered(made) ==
  /\ self' = made.r
  /\ keys' = made.keys
  /\ stage' = IF made.r.raised # None THEN "raised"
              ELSE IF made.r.parsing_failed THEN "done" ELSE "conform"
\* self.parse_bibtex(s)
ParseBibtex(s) ==
  /\ stage = "new"
  /\ bibtexformat
  /\ Entered(parse_bibtex(NewRecord(s), s, keys))
  /\ UNCHANGED <<normalizevars, ran>>
\* self.parse_natural(s)
ParseNatural(s) ==
  /\ stage = "new"
  /\ ~bibtexformat
  /\ Entered([r |-> parse_natural(NewRecord(s), s), keys |-> keys])
  /\ UNCHANGED <<normalizevars, ran>>

\* one call of conform has returned, or raised
Checked(next) ==
  /\ self' = next
  /\ stage' = IF next.raised # None THEN "raised"
              ELSE IF ran + 1 = Len(checks) THEN "done" ELSE "conform"
Check ==
  /\ stage = "conform"
  /\ ran < Len(checks)
  /\ Checked(apply_check(checks[ran + 1], self))
  /\ ran' = ran + 1
  /\ UNCHANGED <<keys, normalizevars>>

ConstructNext ==
  \/ \E s \in RecordEntries : ParseBibtex(s)
  \/ \E s \in RecordLines : ParseNatural(s)
  \/ Check

ConstructSpec == ConstructInit /\ [][ConstructNext]_vars

(***************************************************************************)
(* Properties                                                              *)
(***************************************************************************)
\* the record is rendered as text t, whatever the caller restricts
Rendering(r) == bibtex(r, FALSE, {})
\* the constructor has returned a record that it parsed and normalized
Normalized == stage = "done" /\ ~self.parsing_failed

\* C1: conform run a second time on a record that the constructor parsed and
\* normalized changes no field value, and the record renders as before.
C1_SecondPassIsNoOp ==
  Normalized => /\ conform(self).fields = self.fields
                /\ Rendering(conform(self)) = Rendering(self)
\* the second pass has a record to work on, with a title
C1_Normalized == Normalized /\ HasField(self, "title")

\* normalize has returned the output of a batch of n entries
Returned(n) == pc = "idle" /\ output # None /\ Len(processed_records) = n
\* the diagnostics "duplicate key k" on the records rs, as positions
DuplicateDiagnostics(rs, k) ==
  {x \in UNION {{<<i, j>> : j \in 1..Len(rs[i].errors)} : i \in 1..Len(rs)} :
     rs[x[1]].errors[x[2]] = "duplicate key " \o k}
\* a batch of two entries that have one and the same key
SharedKey ==
  /\ Returned(2)
  /\ \A i \in 1..2 : "key" \in processed_records[i].defined /\ ~processed_records[i].parsing_failed
  /\ processed_records[1].key = processed_records[2].key

\* C2: in a batch of two inputs that share a key, declared or synthesized,
\* the duplicate-key diagnostic is recorded exactly once, and both entries
\* are rendered in the output.
C2_DuplicateRecordedOnce ==
  SharedKey =>
    /\ Cardinality(DuplicateDiagnostics(processed_records, processed_records[1].key[1])) = 1
    /\ ~restrict => \A i \in 1..2 : Contains(output[1], Rendering(processed_records[i]))
\* two lines of a bibliography list with the same synthesized key
C2_SharedSynthesizedKey == SharedKey /\ ~bibtexformat

\* the entries of the batch so far that carry a duplicate-key diagnostic
\* though no earlier entry of the batch has their key
DiagnosedAcrossCalls ==
  {i \in 1..Len(processed_records) :
     /\ "key" \in processed_records[i].defined
     /\ DuplicateDiagnostics(<<processed_records[i]>>, processed_records[i].key[1]) # {}
     /\ \A j \in 1..(i - 1) : processed_records[j].key # processed_records[i].key}

\* C3: the registry of keys is scoped to one call of normalize: a key that
\* one call registered causes no duplicate-key diagnostic on an entry of a
\* later call in the same process.
C3_RegistryScopedToRun == DiagnosedAcrossCalls = {}
\* a later call works on an entry whose key an earlier call has registered
C3_LaterCallSameKey ==
  /\ calls = 2
  /\ bibtexformat
  /\ \E i \in 1..Len(processed_records) : "key" \in processed_records[i].defined

\* C4: an exception raised while one entry is handled does not leave
\* normalize: every call ends by returning the output of the whole batch.
C4_NoExceptionLeavesNormalize ==
  (pc = "idle" /\ calls > 0) =>
    /\ exception = None
    /\ output # None
    /\ Len(processed_records) = Len(input_entries)
\* the constructor raises on an entry of a batch
C4_EntryRaised == pc = "idle" /\ exception # None

\* C5: whenever the parse-failure flag of a record is set, its field map is
\* undefined, conform has not run on it, and it is rendered as no record.
C5_FailedHasNoFields ==
  self.parsing_failed =>
    /\ "fields" \notin self.defined
    /\ ran = 0
    /\ Rendering(self) = ""
\* the parse has set the flag
C5_ParseFailed == stage = "done" /\ self.parsing_failed

\* the line stripped, as parse_natural strips it
Stripped(s) == StripWs(s)
\* the tests of parse_natural go as far as the book grammar, which matches
\* the line, and the match is rejected
BookRejected(s) == ReMatch(BOOK, s).ok /\ grammar_chain(s) = Parsed("misc", EmptyDict)
\* the type and the dict of the first grammar that matches and is accepted
\* in the documented order: a rejected book match goes on to the misc grammar
FirstAccepted(s) ==
  IF grammar_chain(s) = Parsed("misc", EmptyDict) THEN grammar_misc(ReSearch(MISC, s)) ELSE grammar_chain(s)
\* the lines by what the grammars make of them
Grammars ==
  Tabulated([s \in RecordLines |->
               [empty |-> Stripped(s) = "",
                accepted |-> FirstAccepted(Stripped(s)) # Parsed("misc", EmptyDict),
                rejected |-> BookRejected(Stripped(s)),
                misc |-> ReSearch(MISC, Stripped(s)),
                article |-> ReSearch(ARTICLE, Stripped(s)),
                d |-> IF grammar_chain(Stripped(s)).raises THEN EmptyDict
                      ELSE postprocessed(grammar_chain(Stripped(s)).d),
                first |-> parse_grammar(NewRecord(s), FirstAccepted(Stripped(s)))]])
\* parse_natural has returned on a line with text
LineParsed == ~bibtexformat /\ stage \in {"conform", "done"} /\ ran = 0 /\ ~Grammars[self.raw_entry].empty

\* C6: a line of a bibliography list that has text and that no grammar
\* accepts is flagged as a parse failure, and once normalize has returned
\* its raw text stands in the output and no record is rendered for it.
C6_UnacceptedLineFails ==
  ~bibtexformat =>
    \A i \in 1..Len(processed_records) :
      (~Grammars[processed_records[i].raw_entry].empty /\ ~Grammars[processed_records[i].raw_entry].accepted) =>
        /\ processed_records[i].parsing_failed
        /\ Rendering(processed_records[i]) = ""
        /\ output # None => Contains(output[1], processed_records[i].raw_entry)
\* normalize has returned on a batch with a line that no grammar accepts
C6_UnacceptedLine ==
  /\ ~bibtexformat
  /\ output # None
  /\ \E i \in 1..Len(processed_records) :
       ~Grammars[processed_records[i].raw_entry].empty /\ ~Grammars[processed_records[i].raw_entry].accepted

\* C7: the type and the fields that parse_natural gives a line are those of
\* the first grammar, in the documented order, that matches and is accepted.
C7_FirstAcceptedDecides ==
  (LineParsed /\ Grammars[self.raw_entry].accepted) =>
    /\ self.typ = Grammars[self.raw_entry].first.typ
    /\ self.fields = Grammars[self.raw_entry].first.fields
\* a line that the article grammar accepts has been parsed
C7_ArticleParsed == LineParsed /\ self.typ = "article" /\ HasField(self, "journal")

\* C8: a line that the book grammar matches, with the match rejected, and
\* that the misc grammar matches is parsed as misc, with the author, the
\* year and the title that the misc grammar extracts.
C8_RejectedBookIsMisc ==
  (LineParsed /\ Grammars[self.raw_entry].rejected /\ Grammars[self.raw_entry].misc.ok) =>
    /\ self.typ = "misc"
    /\ \A k \in {"author", "year", "title"} :
         Truthy(Group(Grammars[self.raw_entry].misc, k)) =>
           HasField(self, k) /\ trim_braces(Field(self, k)[1]) = G(Grammars[self.raw_entry].misc, k)
\* such a line has been parsed
C8_BookRejected == LineParsed /\ Grammars[self.raw_entry].rejected /\ Grammars[self.raw_entry].misc.ok

\* where the text t first stands in the returned output
FirstAt(t) == MinOf(Occurrences(output[1], t))
\* how many of the records rs are the record r
Copies(rs, r) == Cardinality({i \in 1..Len(rs) : rs[i] = r})
\* the record is rendered for the caller of normalize
Shown(r) == bibtex(r, restrict, inkeysd) # ""

\* C9: the output of normalize has the parsed entries of the batch, each as
\* often as the batch has it, by type in reverse alphabetical order and,
\* within one type, by key in alphabetical order.
C9_OutputOrdered ==
  output # None =>
    /\ \A i \in 1..Len(processed_records) :
         ~processed_records[i].parsing_failed =>
           Copies(sorted_records, processed_records[i]) = Copies(processed_records, processed_records[i])
    /\ \A i, j \in 1..Len(sorted_records) :
         i < j =>
           /\ ~StrLess(sorted_records[i].typ, sorted_records[j].typ)
           /\ sorted_records[i].typ = sorted_records[j].typ =>
                ~StrLess(sorted_records[j].key[1], sorted_records[i].key[1])
           /\ (Shown(sorted_records[i]) /\ Shown(sorted_records[j])) =>
                FirstAt(Rendering(sorted_records[i])) <= FirstAt(Rendering(sorted_records[j]))
\* the sort has moved an entry of a later type in front of the entry before it
C9_Reordered ==
  /\ output # None
  /\ Len(processed_records) = 2
  /\ Len(sorted_records) = 2
  /\ StrLess(processed_records[1].typ, processed_records[2].typ)
  /\ sorted_records[1] = processed_records[2]
  /\ Shown(sorted_records[1]) /\ Shown(sorted_records[2])

\* the raw text of a candidate as the input has it
RawText(r) == (IF bibtexformat THEN "@" ELSE "") \o r.raw_entry
\* the entries of the batch in their input order
Candidates == 1..Len(processed_records)
FailedCandidates == {i \in Candidates : processed_records[i].parsing_failed}
\* the count of the blank-line separated chunks of the text that are the chunk t
Chunks(text, t) == Cardinality({i \in 1..Len(Split(text, "\n\n")) : Split(text, "\n\n")[i] = t})
\* the output begins with the raw texts of n failed candidates, and then
\* has the preamble, if any, and the rendered records
FailureBlock(n) == Join("\n\n", SubSeq(Split(output[1], "\n\n"), 1, n))
RecordBlock(n) ==
  Join("\n\n", SubSeq(Split(output[1], "\n\n"), n + 1 + (IF preamble # "" THEN 1 ELSE 0), Len(Split(output[1], "\n\n"))))

\* C10: with restrict off, the returned output has every candidate of the
\* batch once and in one block: its raw text in the failure block and no
\* rendering of it if its parsing failed, its one rendering among the
\* records and not in the failure block if it parsed.
C10_EveryCandidateOnce ==
  (output # None /\ ~restrict) =>
    \A i \in Candidates :
      IF processed_records[i].parsing_failed
      THEN /\ Chunks(FailureBlock(Cardinality(FailedCandidates)), RawText(processed_records[i]))
                = Cardinality({j \in Candidates : processed_records[j].raw_entry = processed_records[i].raw_entry})
           /\ Chunks(RecordBlock(Cardinality(FailedCandidates)), RawText(processed_records[i])) = 0
           /\ Rendering(processed_records[i]) = ""
      ELSE /\ Chunks(RecordBlock(Cardinality(FailedCandidates)), Rendering(processed_records[i]))
                = Cardinality({j \in Candidates : Rendering(processed_records[j]) = Rendering(processed_records[i])})
           /\ Chunks(FailureBlock(Cardinality(FailedCandidates)), Rendering(processed_records[i])) = 0
           /\ ~Contains(FailureBlock(Cardinality(FailedCandidates)), processed_records[i].raw_entry)
\* a batch of one candidate that parsed and one whose parsing failed
C10_BothBlocks ==
  /\ output # None
  /\ ~restrict
  /\ Cardinality(FailedCandidates) = 1
  /\ Len(processed_records) = 2

\* the fields that the check of the type requires of every entry of the type
Mandatory(typ) ==
  CASE typ = "article" -> {"author", "year", "title", "journal", "volume"}
    [] typ \in {"phdthesis", "mastersthesis", "thesis"} -> {"author", "title", "address", "school", "year"}
    [] typ = "book" -> {"year", "title", "address", "publisher"}
    [] typ \in {"incollection", "inproceedings", "inbook"} -> {"author", "title"}
    [] OTHER -> {"author", "title", "year"}
ErrorMarker(m) == "{\\biberror{no " \o m \o "}}"
\* the normalized record has every mandatory field, and a field that is the
\* error marker has its diagnostic and stands in the rendered record
MarkedWhenMissing ==
  Normalized =>
    \A m \in Mandatory(self.typ) :
      /\ Truthy(Field(self, m))
      /\ Field(self, m) = Some(ErrorMarker(m)) =>
           /\ \E i \in 1..Len(self.errors) : self.errors[i] = "missing " \o m
           /\ Contains(Rendering(self), "\t" \o m \o " = " \o ErrorMarker(m))
\* the constructor has not raised on a line of an article without pages
NoAbortWithoutPages ==
  (~bibtexformat /\ stage = "raised" /\ self.typ = "article") =>
    Truthy(Group(Grammars[self.raw_entry].article, "pages"))

\* C11: an entry that lacks a field mandatory for its type ends with the
\* field set to the error marker, with the diagnostic 'missing <field>' and
\* with the marker in its rendered record; the constructor does not abort on
\* an entry because a mandatory field is missing.
C11_MissingFieldMarked == MarkedWhenMissing /\ NoAbortWithoutPages
\* an article without journal has been normalized
C11_ArticleWithoutJournal ==
  Normalized /\ self.typ = "article" /\ Field(self, "journal") = Some(ErrorMarker("journal"))

\* the diagnostics 'missing <field>' of the record, as positions
MissingDiagnostics(r) == {i \in 1..Len(r.errors) : StartsWith(r.errors[i], "missing ")}
\* the entry of a book on one line, without address and publisher
BookOnOneLine == "book{Doe2019, author = {Doe, John}, title = {Grammar}, year = {2019}}"

\* C12: the book entry on one line is normalized to a record with the error
\* marker in address and in publisher, with two diagnostics of a missing
\* field and no more, and with author, title and year as the entry has them.
C12_BookOnOneLine ==
  (Normalized /\ bibtexformat /\ self.raw_entry = BookOnOneLine) =>
    /\ Field(self, "address") = Some(ErrorMarker("address"))
    /\ Field(self, "publisher") = Some(ErrorMarker("publisher"))
    /\ Cardinality(MissingDiagnostics(self)) = 2
    /\ Field(self, "author") = Some("{Doe, John}")
    /\ Field(self, "title") = Some("{Grammar}")
    /\ Field(self, "year") = Some("{2019}")
    /\ Contains(Rendering(self), "\tauthor = {Doe, John},\n")
    /\ Contains(Rendering(self), "\ttitle = {Grammar},\n")
    /\ Contains(Rendering(self), "\tyear = {2019}\n")
\* the entry has been normalized
C12_OneLineNormalized == Normalized /\ bibtexformat /\ self.raw_entry = BookOnOneLine

\* the next call of conform is the call of the check named
Calling(name) == stage = "conform" /\ checks[ran + 1] = name
\* the pages 12 to 14 as written with a hyphen, an en dash, an em dash, and
\* after "pp."
PagesWritten == {"{12-14}", "{12" \o EnDash \o "14}", "{12" \o EmDash \o "14}", "{pp. 12-14}"}

\* C13: the page check turns each of the four ways of writing the pages
\* 12 to 14 into the one value {12--14}.
C13_PagesNormalized ==
  [][(Calling("checkpages") /\ HasField(self, "pages") /\ Field(self, "pages")[1] \in PagesWritten)
       => Field(self', "pages") = Some("{12--14}")]_vars
\* the page check has worked on the pages written with an en dash
C13_EnDashChecked ==
  /\ ran = 2
  /\ Contains(self.raw_entry, "pages = {12" \o EnDash \o "14}")
  /\ Field(self, "pages") = Some("{12--14}")

\* the entries as parse_bibtex hands them to conform
Given == Tabulated([s \in RecordEntries |-> parse_bibtex(NewRecord(s), s, {}).r])
\* the DOI that the pattern of the url's domain finds in the url, if the
\* domain is on the whitelist
WhitelistMatch(url, domain_match) ==
  IF domain_match.ok /\ DictHas(DOI_WHITELIST_RE, G(domain_match, "1"))
  THEN ReSearch(DictAt(DOI_WHITELIST_RE, G(domain_match, "1")), url)
  ELSE NoMatch
FirstGroup(m) == IF m.ok THEN Group(m, "1") ELSE None
TrustedDoi(r) ==
  IF Truthy(Field(r, "url"))
  THEN FirstGroup(WhitelistMatch(trim_braces(Field(r, "url")[1]), ReMatch(DOMAIN_RE, trim_braces(Field(r, "url")[1]))))
  ELSE None
TrustedDois == Tabulated([s \in RecordEntries |-> TrustedDoi(Given[s])])
\* the entry came without doi and with a url of a trusted domain that has a DOI
UrlIsTrustedDoi == bibtexformat /\ TrustedDois[self.raw_entry] # None /\ ~HasField(Given[self.raw_entry], "doi")

\* C14: an entry without doi whose url has a domain of the whitelist and
\* matches the DOI pattern of the domain, https://doi.org/<DOI> among them,
\* is normalized to a record with the DOI of the url in doi and without url.
C14_DoiFromTrustedUrl ==
  (Normalized /\ UrlIsTrustedDoi) =>
    /\ Field(self, "doi") = Some(add_braces(TrustedDois[self.raw_entry][1]))
    /\ ~HasField(self, "url")
\* such an entry, with the url of a publisher on the whitelist, has been normalized
C14_PublisherUrlNormalized == Normalized /\ UrlIsTrustedDoi /\ Contains(self.raw_entry, "https://academic.oup.com")

\* the lines "name = value" of a rendered record, and the names on them
FieldLines(text) == SelectSeq(Split(text, ",\n\t"), LAMBDA line : Contains(line, " = "))
NamesOn(lines) == [i \in 1..Len(lines) |-> Split(lines[i], " = ")[1]]
RenderedNames(text) == NamesOn(FieldLines(text))
\* the names are in ascending order, each once
Ascending(names) == \A i \in 1..(Len(names) - 1) : StrLess(names[i], names[i + 1])
\* the record has a field map and is rendered
Renderable == stage \in {"conform", "done"} /\ ~self.parsing_failed /\ "fields" \in self.defined

\* C15: the rendered record of a parsed entry has the names of its fields in
\* ascending lexicographic order, each once, and they are the fields of the
\* field map that are not on the exclusion list.
C15_FieldsSortedAndFiltered ==
  Renderable =>
    LET names == RenderedNames(Rendering(self))
    IN /\ Ascending(names)
       /\ Range(names) = Range(DictKeys(self.fields)) \ excludefields
\* a record with a field of the exclusion list, and with its fields out of order
C15_ExcludedFieldPresent ==
  /\ Renderable
  /\ HasField(self, "abstract")
  /\ HasField(self, "author")
  /\ DictIndex(self.fields, "title") < DictIndex(self.fields, "author")

\* the contributors of the entry: its authors or, without author, its editors
Contributors(d) ==
  IF Truthy(DGet(d, "author")) THEN DGet(d, "author")
  ELSE IF Truthy(DGet(d, "editor")) THEN DGet(d, "editor") ELSE None
Conjunctions(names) == Count(names, " and ") + Count(names, "&")
\* the surname of the first contributor: the text before the first comma,
\* of an editor its first token
FirstSurname(d) ==
  IF Truthy(DGet(d, "author")) THEN Split(DGet(d, "author")[1], ",")[1]
  ELSE Split(Split(DGet(d, "editor")[1], ",")[1], " ")[1]
\* the surname of the contributor after the conjunction
SecondSurname(names) ==
  IF Contains(StripWs(Last(Split(names, " and "))), ",") THEN Split(StripWs(Last(Split(names, " and "))), ",")[1]
  ELSE Last(Split(StripWs(Last(Split(names, " and "))), " "))
NamePart(d, surname) ==
  IF Contributors(d) = None THEN "Anonymous"
  ELSE surname \o (IF Conjunctions(Contributors(d)[1]) >= 2 THEN "EtAl"
                   ELSE IF Conjunctions(Contributors(d)[1]) = 1 THEN SecondSurname(Contributors(d)[1])
                   ELSE "")
YearPart(d) ==
  IF Truthy(DGet(d, "year"))
  THEN SubSeq(DGet(d, "year")[1], 1, 4) \o (IF Truthy(DGet(d, "extrayear")) THEN DGet(d, "extrayear")[1] ELSE "")
  ELSE "9999"
\* parse_natural has synthesized the key of a line
KeySynthesized == LineParsed /\ stage = "conform"

SmithLine == "Smith, Jane (2020). A Study of Syntax. Journal of Linguistics 12(3), 45-67."

\* C17: the line of the article by Smith is parsed and normalized into an
\* article with author Smith, Jane, year 2020, volume 12, number 3, pages
\* 45--67 and the key Smith2020.
C17_SmithArticle ==
  (Normalized /\ ~bibtexformat /\ self.raw_entry = SmithLine) =>
    /\ self.typ = "article"
    /\ self.key = Some("Smith2020")
    /\ Field(self, "author") = Some("{Smith, Jane}")
    /\ Field(self, "year") = Some("{2020}")
    /\ Field(self, "volume") = Some("{12}")
    /\ Field(self, "number") = Some("{3}")
    /\ Field(self, "pages") = Some("{45--67}")
\* the line has been parsed and normalized
C17_SmithNormalized == Normalized /\ ~bibtexformat /\ self.raw_entry = SmithLine

\* the record has the diagnostic
Diagnosed(r, e) == \E i \in 1..Len(r.errors) : r.errors[i] = e
\* the normalized record has an access date and no url
DateWithoutUrl == Normalized /\ HasField(self, "urldate") /\ ~HasField(self, "url")

\* C18: a record that conform leaves with urldate and without url has the
\* diagnostic of an access date without url, whichever check removed the url.
C18_DateWithoutUrlDiagnosed == DateWithoutUrl => Diagnosed(self, "urldate exists but url is missing")
\* checkurl has removed the url of an entry with an access date
C18_UrlRemovedByCheckurl ==
  /\ DateWithoutUrl
  /\ bibtexformat
  /\ HasField(Given[self.raw_entry], "url")
  /\ Diagnosed(self, "DOI set from trusted URL: 10.1515/example via doi.org")

\* the url of the record has a trusted domain and the DOI in it is the doi
\* of the record, whatever the case of the letters
SameDoiInTrustedUrl(r) ==
  /\ HasField(r, "doi")
  /\ TrustedDoi(r) # None
  /\ ToLower(TrustedDoi(r)[1]) = ToLower(trim_braces(Field(r, "doi")[1]))

\* C19: when the url has a trusted domain and the DOI extracted from it is
\* the doi of the entry, ignoring case, the url check leaves the record
\* without url and with its doi.
C19_RedundantUrlRemoved ==
  [][(Calling("checkurl") /\ SameDoiInTrustedUrl(self))
       => (~HasField(self', "url") /\ Field(self', "doi") = Field(self, "doi"))]_vars
\* the url check has worked on such an entry
C19_SameDoiChecked ==
  /\ bibtexformat
  /\ stage = "conform"
  /\ ran = 10
  /\ SameDoiInTrustedUrl(Given[self.raw_entry])

\* a URL, a space, and a date in ISO or in dotted form
UrlThenDate == Cat(<<Grp("1", url_pattern), Lit(" "), Grp("2", Alt(<<iso_date, euro_date>>))>>)
UrlAndDate(r) == IF Truthy(Field(r, "url")) THEN ReFullMatch(UrlThenDate, trim_braces(Field(r, "url")[1])) ELSE NoMatch

\* C20: when the url is a URL, a space and a date, the url check leaves the
\* URL alone in url; it sets urldate to the date if the entry has no
\* urldate, and keeps the urldate that the entry has.
C20_DateSplitFromUrl ==
  [][(Calling("checkurl") /\ UrlAndDate(self).ok)
       => /\ Field(self', "url") = Some(add_braces(G(UrlAndDate(self), "1")))
          /\ Field(self', "urldate") = IF HasField(self, "urldate") THEN Field(self, "urldate")
                                      ELSE Some(add_braces(G(UrlAndDate(self), "2")))]_vars
\* the url check has worked on a url with a date in dotted form
C20_DottedDateChecked ==
  /\ bibtexformat
  /\ stage = "conform"
  /\ ran = 10
  /\ Contains(self.raw_entry, "url = {http://x.org/a 02.01.2020}")
  /\ Field(self, "url") = Some("{http://x.org/a}")

\* the identifiers of articles that stand for their pages
ArticleIds == {"123"}

\* C21: the page check turns a pages value 'Article ID N' into the
\* identifier alone, stored as {N}.
C21_ArticleIdStripped ==
  [][\A n \in ArticleIds :
       (Calling("checkpages") /\ Field(self, "pages") = Some("{Article ID " \o n \o "}"))
         => Field(self', "pages") = Some("{" \o n \o "}")]_vars
\* the page check has worked on the pages 'Article ID 123'
C21_ArticleIdChecked ==
  /\ ran = 2
  /\ Contains(self.raw_entry, "pages = {Article ID 123}")
  /\ HasField(self, "pages")

\* the article has no pages and the next call of conform is its check
ArticleWithoutPages == Calling("checkarticle") /\ self.typ = "article" /\ ~is_real_value(Field(self, "pages"))
\* the url or the doi of the record is present
Electronic(r) == is_real_value(Field(r, "url")) \/ is_real_value(Field(r, "doi"))

\* C22: the check of an article without pages sets pages to the error
\* marker exactly when neither a url nor a doi is present, an error marker in
\* url or doi counting as absent; with a url or a doi present it leaves the
\* article without pages and records the diagnostic 'no pages' alone.
C22_PagesRequiredUnlessElectronic ==
  [][ArticleWithoutPages =>
       /\ (Field(self', "pages") = Some(ErrorMarker("pages"))) <=> ~Electronic(self)
       /\ Electronic(self) =>
            /\ ~HasField(self', "pages")
            /\ Last(self'.errors) = "no pages"
            /\ \A i \in 1..Len(self'.errors) : self'.errors[i] # "missing pages"]_vars
\* the article whose url the URL check has replaced by an error marker has
\* been checked
C22_UrlMarkerChecked ==
  /\ self.typ = "article"
  /\ stage = "done"
  /\ StartsWith(OrElse(Field(self, "url"), Some(""))[1], "{\\biberror{")
  /\ ~is_real_value(Field(self, "pages"))

\* the checks of conform that work on the fields, lines 707-722, and those
\* that are gated on the type, lines 725-732
FieldChecks ==
  {"remap_fields", "checkpages", "checkbooktitle", "checkvolumenumber", "checkinitials", "checkampersand",
   "checketal", "checkand", "checkedition", "checkurl", "checkurldate", "checkdoi", "checkquestionmarks",
   "checkbookisthesis", "checkmonth", "checkdecapitalization"}
TypeChecks ==
  <<"checkarticle", "checkthesis", "checkbook", "checkincollection", "checkinproceedings", "checkinbook",
    "checkmisc", "checkothertype">>
\* the type guard of a type-gated check lets the type pass
Passes(name, typ) ==
  CASE name = "checkarticle" -> typ = "article"
    [] name = "checkthesis" -> typ \in {"phdthesis", "mastersthesis", "thesis"}
    [] name = "checkbook" -> typ = "book"
    [] name = "checkincollection" -> typ = "incollection"
    [] name = "checkinproceedings" -> typ = "inproceedings"
    [] name = "checkinbook" -> typ = "inbook"
    [] name = "checkmisc" -> typ = "misc"
    [] name = "checkothertype" ->
         typ \notin {"article", "book", "inbook", "incollection", "inproceedings", "thesis", "phdthesis",
                     "mastersthesis", "misc"}
\* the type-gated checks in another order: two of them exchanged, or all reversed
Orders ==
  {[k \in 1..Len(TypeChecks) |-> TypeChecks[IF k = i THEN j ELSE IF k = j THEN i ELSE k]] :
     i \in 1..Len(TypeChecks), j \in 1..Len(TypeChecks)}
  \cup {[k \in 1..Len(TypeChecks) |-> TypeChecks[Len(TypeChecks) + 1 - k]]}
\* the checks of order from the k-th on, one after the other
RECURSIVE InOrder(_, _, _)
InOrder(r, order, k) ==
  IF k > Len(order) \/ r.raised # None THEN r ELSE InOrder(apply_check(order[k], r), order, k + 1)
\* the next call of conform is a type-gated check
CallingTypeCheck == stage = "conform" /\ checks[ran + 1] \in Range(TypeChecks)
\* the field checks have all returned and no type-gated check has been called
BeforeTypeChecks == stage = "conform" /\ ran = Cardinality(FieldChecks)

\* C23: the type of an entry passes the guard of exactly one type-gated
\* check, and a check whose guard the type does not pass leaves the entry as
\* it is; the type-gated checks called in another order give the record that
\* conform's order gives; and when a type-gated check is called every field
\* check has returned.
C23_TypeChecksExclusive ==
  [][/\ CallingTypeCheck =>
          /\ Cardinality({i \in 1..Len(TypeChecks) : Passes(TypeChecks[i], self.typ)}) = 1
          /\ ~Passes(checks[ran + 1], self.typ) => self' = self
          /\ ran >= Cardinality(FieldChecks)
          /\ \A i \in 1..Cardinality(FieldChecks) : checks[i] \in FieldChecks
     /\ BeforeTypeChecks =>
          \A order \in Orders :
            InOrder(self, order, 1) = run_checks(self, ran + 1, ran + Len(TypeChecks))]_vars
\* the check of a type that no other check knows has marked the missing fields
C23_OtherTypeChecked ==
  /\ stage = "done"
  /\ self.typ = "manual"
  /\ Field(self, "author") = Some(ErrorMarker("author"))

\* the fields that the check of the type does not require of an entry with a
\* crossref
Waived(typ) ==
  CASE typ = "incollection" -> {"year", "booktitle", "editor", "publisher", "address"}
    [] typ = "inproceedings" -> {"year", "booktitle"}
    [] typ = "inbook" -> {"year", "booktitle", "bookauthor", "publisher", "address"}
    [] OTHER -> {}
\* the next call of conform is the check of the type of the entry, which
\* has a crossref
CallingWithCrossref ==
  /\ stage = "conform"
  /\ self.typ \in {"incollection", "inproceedings", "inbook"}
  /\ checks[ran + 1] = "check" \o self.typ
  /\ HasField(self, "crossref")
\* the field of the record is an error marker
IsMarker(r, f) == HasField(r, f) /\ StartsWith(Field(r, f)[1], "{\\biberror{")

\* C27: the check of an incollection, inproceedings or inbook entry with a
\* crossref puts no error marker into the fields that the crossref waives,
\* and marks a missing author and a missing title.
C27_CrossrefWaives ==
  [][CallingWithCrossref =>
       /\ \A f \in Waived(self.typ) : IsMarker(self', f) => IsMarker(self, f)
       /\ \A f \in {"author", "title"} :
            Falsy(Field(self, f)) =>
              /\ Field(self', f) = Some(ErrorMarker(f))
              /\ \E i \in 1..Len(self'.errors) : self'.errors[i] = "missing " \o f]_vars
\* an inproceedings entry with a crossref and nothing else has been normalized
C27_InproceedingsWithCrossref ==
  /\ stage = "done"
  /\ self.typ = "inproceedings"
  /\ HasField(self, "crossref")
  /\ ~HasField(self, "year")
  /\ IsMarker(self, "author")

\* the records of the loop of normalize on the entries, from the k-th on;
\* None when a constructor raises
RECURSIVE Processed(_, _, _, _, _)
Processed(entries, structured, registry, done, k) ==
  IF k > Len(entries) THEN Some(done)
  ELSE LET made == Constructed(entries[k], structured, registry)
       IN IF made.r.raised # None THEN None
          ELSE Processed(entries, structured, made.keys, Append(done, made.r), k + 1)
\* what normalize returns on the text of file f when the registry holds the
\* keys of registry, for the caller of the call that has returned
OutputOn(f, registry) ==
  LET rs == Processed(SplitFiles[f].input_entries, f.bibtexformat, registry, <<>>, 1)
  IN IF rs = None THEN None
     ELSE Some(output_of(sort_records(rs[1]), SplitFiles[f].preamble,
                         parsing_failure_of(nonparsed_of(rs[1]), f.bibtexformat), restrict, inkeysd))
\* the files that have the entries of file f in any order
Reordered(f) ==
  {g \in Files :
     /\ g.bibtexformat = f.bibtexformat
     /\ g.pre = f.pre
     /\ Len(g.batch) = Len(f.batch)
     /\ \E p \in [1..Len(f.batch) -> 1..Len(f.batch)] :
          /\ \A i, j \in 1..Len(f.batch) : p[i] = p[j] => i = j
          /\ \A i \in 1..Len(f.batch) : g.batch[i] = f.batch[p[i]]}
\* the files whose text the call that has returned was made on
FilesCalledOn ==
  {f \in Files :
     /\ f.bibtexformat = bibtexformat
     /\ SplitFiles[f].preamble = preamble
     /\ SplitFiles[f].input_entries = input_entries}
\* the call has returned, every entry has parsed, and no two have the same key
AllParsedDistinct ==
  /\ pc = "idle"
  /\ output # None
  /\ \A i \in 1..Len(processed_records) : ~processed_records[i].parsing_failed
  /\ \A i, j \in 1..Len(processed_records) :
       processed_records[i].key = processed_records[j].key => i = j

\* C24: when every entry of the batch parses and no two entries have the
\* same key, normalize returns the same text on the entries in any order.
C24_OrderOfEntriesIrrelevant ==
  AllParsedDistinct =>
    \A f \in FilesCalledOn : \A g \in Reordered(f) : \A registry \in SUBSET CorpusKeys :
      OutputOn(g, registry) = output
\* normalize has returned on two entries of one type that it has put in the
\* other order
C24_TwoParsedExchanged ==
  /\ AllParsedDistinct
  /\ Len(processed_records) = 2
  /\ processed_records[1].typ = processed_records[2].typ
  /\ sorted_records = <<processed_records[2], processed_records[1]>>
  /\ \E f \in FilesCalledOn : f.batch[1] # f.batch[2]

\* the sequence xs is the beginning of the sequence ys
IsPrefix(xs, ys) == Len(xs) <= Len(ys) /\ SubSeq(ys, 1, Len(xs)) = xs

\* C25: the parse and every check of conform leave the diagnostics of the
\* entry where they are and add theirs after them; none is removed or moved.
C25_DiagnosticsOnlyGrow == [][IsPrefix(self.errors, self'.errors)]_vars
\* field checks and a type-gated check have each added diagnostics
C25_DiagnosticsOfTwoPhases ==
  /\ stage = "done"
  /\ Len(self.errors) >= 4
  /\ self.errors[1] = "url does not start with http"
  /\ Last(self.errors) = "no pages"

\* the months by their full names; the 3-letter name is the beginning of it
MonthNames ==
  <<"january", "february", "march", "april", "may", "june", "july", "august", "september", "october",
    "november", "december">>
\* the number of the month that the text names or numbers, None when it
\* does neither: a name in any case, or one or two digits of a number from
\* 1 to 12
MonthNumber(text) ==
  LET named == {n \in 1..12 : ToLower(text) \in {MonthNames[n], SubSeq(MonthNames[n], 1, 3)}}
  IN IF named # {} THEN Some(NatToStr(CHOOSE n \in named : TRUE))
     ELSE IF IsDigits(text) /\ Len(text) <= 2 /\ NatOf(text, 1, Len(text)) \in 1..12
          THEN Some(NatToStr(NatOf(text, 1, Len(text))))
     ELSE None

\* C26: the month check replaces a month name or a number of one or two
\* digits from 1 to 12 by the number in braces, and deletes every other
\* month with the diagnostic 'incorrect format for month'; after it the
\* month is absent or one of {1} to {12}.
C26_MonthCanonical ==
  [][(Calling("checkmonth") /\ is_real_value(Field(self, "month"))) =>
       LET raw == Field(self, "month")[1]
           number == MonthNumber(trim_braces(raw))
       IN IF number # None
          THEN Field(self', "month") = Some("{" \o number[1] \o "}")
          ELSE /\ ~HasField(self', "month")
               /\ Last(self'.errors) = "incorrect format for month: " \o raw]_vars
\* the month check has worked on a month of three digits
C26_ThreeDigitsChecked ==
  /\ ran = 15
  /\ Contains(self.raw_entry, "month = {003}")

\* the language tags of German
GermanTags == {"german", "ngerman", "de"}
\* the entry is tagged as German
German(r) == HasField(r, "langid") /\ trim_braces(Field(r, "langid")[1]) \in GermanTags

\* C28: the decapitalization check of an entry whose langid is german,
\* ngerman or de changes no field and adds no diagnostic.
C28_GermanSkipped ==
  [][(Calling("checkdecapitalization") /\ German(self)) =>
       /\ self'.fields = self.fields
       /\ self'.errors = self.errors]_vars
\* the title of a German entry has gone through the check with its
\* acronym unprotected
C28_GermanTitleChecked ==
  /\ ran >= 16
  /\ German(self)
  /\ Field(self, "title") = Some("{Die ICPhS Daten}")

\* the first call of normalize, on a .bib file: the registry was empty when
\* it began
FirstStructuredRun == calls = 1 /\ bibtexformat
\* the records of the batch before the j-th that have parsed and have key k
ParsedBefore(j, k) ==
  {i \in 1..(j - 1) : ~processed_records[i].parsing_failed /\ processed_records[i].key = Some(k)}

\* C29: in a run that began with the empty registry, an entry has the
\* diagnostic 'duplicate key k' only if an entry before it in the batch has
\* parsed and has the key k, and the registry holds the keys of the parsed
\* entries only: an entry whose parsing has failed has not registered its key.
C29_OnlyParsedKeysRegistered ==
  FirstStructuredRun =>
    /\ \A j \in 1..Len(processed_records) : \A k \in CorpusKeys :
         DuplicateDiagnostics(<<processed_records[j]>>, k) # {} => ParsedBefore(j, k) # {}
    /\ \A k \in keys : ParsedBefore(Len(processed_records) + 1, k) # {}
\* an entry with no field has failed to parse and the entry after it has
\* the diagnostic of a duplicate key
C29_DuplicateOfFailedEntry ==
  /\ FirstStructuredRun
  /\ Len(processed_records) = 2
  /\ processed_records[1].parsing_failed
  /\ processed_records[1].errors = <<"No fields parsed from BibTeX entry">>
  /\ ~processed_records[2].parsing_failed
  /\ DuplicateDiagnostics(<<processed_records[2]>>, "Abe2001") # {}

\* the field lines of an entry, as the loop of parse_bibtex has them
FieldLinesOf(s) ==
  LET m == ReMatch(TYPKEYFIELDS, s)
  IN IF m.ok THEN field_lines(G(m, "3")) ELSE <<>>
\* every iteration of the loop on the line ends the loop or goes on with a
\* shorter line
RECURSIVE Shortens(_)
Shortens(line) ==
  LET next == next_line(line)
  IN next = None \/ (Len(next[1]) < Len(line) /\ Shortens(next[1]))
\* the entry with three fields on one line, the first unbraced, the second quoted
ThreeOnOneLine == "misc{L1, year = 2001, month = \"jan\", note = {n}}"

\* parse_bibtex has returned and conform has not begun
StructuredParsed == bibtexformat /\ stage # "new" /\ ran = 0

\* C30: on every field line of an entry that parse_bibtex has worked on,
\* each iteration of the loop that takes the fields off the line ends the
\* loop or goes on with a strictly shorter remainder of the line.
C30_FieldLoopShortens ==
  StructuredParsed =>
    \A i \in 1..Len(FieldLinesOf(self.raw_entry)) : Shortens(FieldLinesOf(self.raw_entry)[i])
\* the loop has taken three fields off one line
C30_ThreeFieldsOffOneLine ==
  /\ StructuredParsed
  /\ self.raw_entry = ThreeOnOneLine
  /\ self.fields = <<<<"year", "2001">>, <<"month", "{jan}">>, <<"note", "{n}">>>>
  /\ next_line("year = 2001, month = \"jan\", note = {n}") = Some("month = \"jan\", note = {n}")
  /\ next_line("month = \"jan\", note = {n}") = Some("note = {n}")
  /\ next_line("note = {n}") = None

====
